---- MODULE Spec2Model ----
(***************************************************************************)
(* A model of lotus-notebook's embedded execution sandbox                  *)
(* (src/src/pythonexecutor.cpp): the PythonExecutor session, the process-  *)
(* wide Python runtime it drives, the SIGALRM / setjmp deadline of         *)
(* execute(), the capture sinks and the rich-output line protocol.         *)
(*                                                                         *)
(* Text is a sequence of tokens.  "a" and "b" are visible characters, " "  *)
(* is a blank, "\n" a line break, "S" stands for the 13 characters of the  *)
(* sentinel prefix LOTUS_OUTPUT: and a token starting with "J:" stands for *)
(* one JSON document.  Error strings are sequences of tokens as well.      *)
(***************************************************************************)
EXTENDS Integers, Sequences, FiniteSets, TLC

\* ------------------------------------------------------------------ bounds

\* Most tokens a capture sink may hold; a snippet that would write past it is
\* not submitted.
MaxSink == 3

\* Most lines of a captured stream whose splitting into textOutput and
\* outputs is examined line by line.
MaxLines == 3

\* Most "." entries initialize() may have appended to sys.path of one runtime;
\* an initialize() that would fail is not considered past it.
MaxSysPath == 1

\* the notebook has at most this many cells
MaxCells == 3

\* the notebook manager holds at most this many cells
MaxNotebook == 2

\* the notebooks are saved at most this many times
MaxSaves == 12

\* static const int DEFAULT_MAX_BACKUPS
DEFAULT_MAX_BACKUPS == 10

CellIds == 1..MaxCells

\* ------------------------------------------------------------- small sets

SessionIds == {1, 2}

Absent == "absent"

UserNames == {"x", "y"}
PrivateNames == {"_tmp"}
DunderNames == {"__name__"}
RedirectNames == {"sys", "LotusStdoutCapture"}
PlotNames == {"lotus_plot_capture"}
ImportNames == {"sys", "signal"}
\* names of getVariables()'s exclusion list that a snippet binds
ShadowNames == {"open", "In"}
\* names with two leading underscores that are a snippet's own
DoubleNames == {"__secret", "__own__"}
Names ==
    UserNames \cup PrivateNames \cup DunderNames \cup RedirectNames \cup PlotNames
        \cup ImportNames \cup ShadowNames \cup DoubleNames

\* timeout_ms values a caller configures (the constructor's default included)
DefaultTimeout == 10000
TimeoutChoices == {100, 1500, DefaultTimeout}

\* ------------------------------------------------------------------- text

IsSpace(c) == c \in {" ", "\n"}

RECURSIVE TrimLeft(_)
TrimLeft(t) == IF t # <<>> /\ IsSpace(Head(t)) THEN TrimLeft(Tail(t)) ELSE t

RECURSIVE TrimRight(_)
TrimRight(t) ==
    IF t # <<>> /\ IsSpace(t[Len(t)]) THEN TrimRight(SubSeq(t, 1, Len(t) - 1)) ELSE t

\* a trimmed that strips the front only
trimmedLeftOnly(t) == TrimLeft(t)

\* QString::trimmed
trimmed(t) == TrimRight(TrimLeft(t))

\* QString::split('\n'): the pieces between line breaks, empty pieces kept
RECURSIVE SplitFrom(_, _, _)
SplitFrom(t, i, cur) ==
    IF i > Len(t) THEN <<cur>>
    ELSE IF t[i] = "\n" THEN <<cur>> \o SplitFrom(t, i + 1, <<>>)
    ELSE SplitFrom(t, i + 1, Append(cur, t[i]))

split(t) == SplitFrom(t, 1, <<>>)

\* line.startsWith("LOTUS_OUTPUT:")
startsWithSentinel(line) == line # <<>> /\ Head(line) = "S"

\* QJsonDocument::fromJson on the payload of a sentinel line: NoError only
\* when the payload is exactly one well-formed document.
JsonTokens == {"J:text", "J:html", "J:table", "J:image", "J:error", "J:rich",
               "J:markdown", "J:other", "J:array"}

jsonNoError(payload) == Len(payload) = 1 /\ payload[1] \in JsonTokens

\* json["type"].toString(); an array document has no object, hence no type
jsonType(payload) ==
    CASE payload[1] = "J:text" -> "text"
      [] payload[1] = "J:html" -> "html"
      [] payload[1] = "J:table" -> "table"
      [] payload[1] = "J:image" -> "image"
      [] payload[1] = "J:error" -> "error"
      [] payload[1] = "J:rich" -> "rich"
      [] payload[1] = "J:markdown" -> "markdown"
      [] payload[1] = "J:other" -> "other"
      [] OTHER -> ""

\* json["content"].toString(): every document of the model carries "hi"
jsonContent(payload) == IF payload[1] = "J:array" THEN <<>> ELSE <<"h", "i">>

OutputTypes == {"Text", "Error", "Html", "Table", "Image", "Markdown", "Rich"}

Output(type, content, imageData) ==
    [type |-> type, content |-> content, imageData |-> imageData]

\* QByteArray::fromBase64 of a content string: its decoded bytes
fromBase64(content) == IF content = <<>> THEN <<>> ELSE <<"bytes">>

\* a chain of type tests that ends by taking any other type as text
lineOutputsUnknownAsText(line) ==
    IF ~startsWithSentinel(line) THEN <<>>
    ELSE LET jsonStr == trimmed(Tail(line)) IN
         IF ~jsonNoError(jsonStr) THEN <<>>
         ELSE LET type == jsonType(jsonStr)
                  content == jsonContent(jsonStr)
              IN CASE type = "html" -> <<Output("Html", content, <<>>)>>
                   [] type = "table" -> <<Output("Table", content, <<>>)>>
                   [] type = "image" -> <<Output("Image", <<>>, fromBase64(content))>>
                   [] type = "error" -> <<Output("Error", content, <<>>)>>
                   [] type = "rich" -> <<Output("Rich", content, <<>>)>>
                   [] type = "markdown" -> <<Output("Markdown", content, <<>>)>>
                   [] OTHER -> <<Output("Text", content, <<>>)>>

\* the outputs one line contributes
lineOutputs(line) ==
    IF ~startsWithSentinel(line) THEN <<>>
    ELSE LET jsonStr == trimmed(Tail(line)) IN
         IF ~jsonNoError(jsonStr) THEN <<>>
         ELSE LET type == jsonType(jsonStr)
                  content == jsonContent(jsonStr)
              IN CASE type = "text" -> <<Output("Text", content, <<>>)>>
                   [] type = "html" -> <<Output("Html", content, <<>>)>>
                   [] type = "table" -> <<Output("Table", content, <<>>)>>
                   [] type = "image" -> <<Output("Image", <<>>, fromBase64(content))>>
                   [] type = "error" -> <<Output("Error", content, <<>>)>>
                   [] type = "rich" -> <<Output("Rich", content, <<>>)>>
                   [] type = "markdown" -> <<Output("Markdown", content, <<>>)>>
                   [] OTHER -> <<>>

\* a loop that puts each new entry in front of the list
RECURSIVE OutputsOfLinesPrepending(_)
OutputsOfLinesPrepending(lines) ==
    IF lines = <<>> THEN <<>>
    ELSE OutputsOfLinesPrepending(Tail(lines)) \o lineOutputs(Head(lines))

RECURSIVE OutputsOfLines(_)
OutputsOfLines(lines) ==
    IF lines = <<>> THEN <<>>
    ELSE lineOutputs(Head(lines)) \o OutputsOfLines(Tail(lines))

parseRichOutputs(stdoutText) == OutputsOfLines(split(stdoutText))

\* a loop that skips the sentinel lines instead of stopping at the first
RECURSIVE PlainSkippingSentinels(_)
PlainSkippingSentinels(lines) ==
    IF lines = <<>> THEN <<>>
    ELSE IF startsWithSentinel(Head(lines)) THEN PlainSkippingSentinels(Tail(lines))
    ELSE Head(lines) \o <<"\n">> \o PlainSkippingSentinels(Tail(lines))

\* the loop of execute() that collects the lines before the first sentinel line
RECURSIVE PlainOfLines(_)
PlainOfLines(lines) ==
    IF lines = <<>> \/ startsWithSentinel(Head(lines)) THEN <<>>
    ELSE Head(lines) \o <<"\n">> \o PlainOfLines(Tail(lines))

plainText(stdoutText) == PlainOfLines(split(stdoutText))

\* ------------------------------------------------- the embedded runtime

\* A PyObject* member of the executor: nullptr, a reference into the live
\* runtime, or a reference whose runtime has been finalized.
Handles == {"null", "live", "stale"}

\* The process has no runtime: before Py_Initialize and after Py_Finalize.
\* What sys.stdout or sys.stderr is bound to: the capture object of a
\* session ("sink"), the stream of the process ("orig"), None ("none"), a
\* capture object no executor holds ("lost") or an object a snippet made
\* ("other").
Channel(kind, s) == [kind |-> kind, session |-> s]

\* figure: the plotting library holds a figure that a snippet has drawn.
\* gil: the thread that holds the interpreter lock (a session stands for the
\* thread that drives it), 0 when no thread holds it.
NoRuntime ==
    [live |-> FALSE,
     globals |-> [n \in Names |-> Absent],
     sysStdout |-> Channel("none", 0),
     sysStderr |-> Channel("none", 0),
     sysPath |-> 0,
     sinkOut |-> [s \in SessionIds |-> <<>>],
     sinkErr |-> [s \in SessionIds |-> <<>>],
     figure |-> FALSE,
     unwound |-> FALSE,
     gil |-> 0]

\* Py_Initialize: a runtime whose __main__ holds only its dunder names and
\* whose sys.stdout / sys.stderr are the process's own streams.  The calling
\* thread t holds the interpreter lock of the new runtime.
Py_Initialize(py, t) ==
    IF py.live THEN py
    ELSE [NoRuntime EXCEPT
            !.live = TRUE,
            !.gil = t,
            !.globals = [n \in Names |-> IF n \in DunderNames THEN "'__main__'" ELSE Absent],
            !.sysStdout = Channel("orig", 0),
            !.sysStderr = Channel("orig", 0)]

\* Py_Finalize destroys every object of the runtime: each executor's
\* references into it dangle from then on.
Dangle(h) == IF h = "live" THEN "stale" ELSE h

Py_Finalize(w) ==
    [executor |-> [t \in SessionIds |->
                     [w.executor[t] EXCEPT
                        !.pMainModule = Dangle(@),
                        !.pGlobals = Dangle(@),
                        !.pStdout = Dangle(@),
                        !.pStderr = Dangle(@),
                        !.pPlotCaptureModule = Dangle(@)]],
     py |-> NoRuntime]

\* PythonExecutor::PythonExecutor
NewExecutor ==
    [initialized |-> FALSE,
     lastErrorMessage |-> "",
     executionTimeout |-> DefaultTimeout,
     plotCaptureEnabled |-> TRUE,
     executionInterrupted |-> FALSE,
     pMainModule |-> "null",
     pGlobals |-> "null",
     pStdout |-> "null",
     pStderr |-> "null",
     pPlotCaptureModule |-> "null"]

\* What the environment lets an initialize() achieve: everything, or the
\* first step that fails.
InitEnvs == {"ok", "noInterpreter", "noMainModule", "noGlobals",
             "redirectScript", "redirectLookup", "plotScript"}

\* PythonExecutor::cleanup
cleanup(w, s) ==
    IF ~w.executor[s].initialized THEN w
    ELSE LET w1 == [w EXCEPT !.executor[s].pPlotCaptureModule = "null",
                             !.py.sysStdout = Channel("none", 0),
                             !.py.sysStderr = Channel("none", 0)]
             w2 == Py_Finalize(w1)
         IN [w2 EXCEPT !.executor[s].initialized = FALSE]

\* PythonExecutor::setupStdoutRedirection.  The capture script binds its
\* imports and its class in __main__ and points sys.stdout / sys.stderr at
\* two new capture objects; the executor then takes references to them.
\*   redirectScript: the script fails before its first binding
\*   redirectLookup: the script ran, the lookup of the sys module fails
setupStdoutRedirection(w, s, env) ==
    IF env = "redirectScript" THEN [w |-> w, ok |-> FALSE]
    ELSE LET w1 == [w EXCEPT
                      !.py.globals = [n \in Names |->
                          IF n = "sys" THEN "<module>"
                          ELSE IF n = "LotusStdoutCapture" THEN "<class>"
                          ELSE @[n]],
                      !.py.sysStdout = Channel("lost", 0),
                      !.py.sysStderr = Channel("lost", 0)]
         IN IF env = "redirectLookup" THEN [w |-> w1, ok |-> FALSE]
            ELSE [w |-> [w1 EXCEPT !.py.sysStdout = Channel("sink", s),
                                   !.py.sysStderr = Channel("sink", s),
                                   !.py.sinkOut[s] = <<>>,
                                   !.py.sinkErr[s] = <<>>,
                                   !.executor[s].pStdout = "live",
                                   !.executor[s].pStderr = "live"],
                  ok |-> TRUE]

\* PythonExecutor::setupPlotCapture
setupPlotCapture(w, s, env) ==
    IF env = "plotScript" THEN w
    ELSE [w EXCEPT !.py.globals["lotus_plot_capture"] = "<PlotCapture>",
                   !.executor[s].pPlotCaptureModule = "live"]

\* a clear_plots that closes nothing
clear_plotsLeavesOpen(py) == py

\* PlotCapture.clear_plots: every figure is closed
clear_plots(py) == [py EXCEPT !.figure = FALSE]

\* PlotCapture.capture_current_plot: the base64 text of the drawn figure.
\* (With no drawn figure the library saves an empty canvas or raises; that
\* image carries nothing of a snippet and is not followed.)
capture_current_plot(py) == IF py.figure THEN <<"b64">> ELSE <<>>

\* PythonExecutor::capturePlot: the image bytes plotGenerated is emitted with
capturePlot(w, s) ==
    IF w.executor[s].pPlotCaptureModule = "null" THEN <<>>
    ELSE fromBase64(capture_current_plot(w.py))

\* PythonExecutor::initialize
initialize(w, s, env) ==
    IF w.executor[s].initialized THEN [w |-> w, ok |-> TRUE]
    ELSE IF ~w.py.live /\ env = "noInterpreter"
    THEN [w |-> [w EXCEPT !.executor[s].lastErrorMessage =
                            "Failed to initialize Python interpreter"],
          ok |-> FALSE]
    ELSE LET w1 == [w EXCEPT !.py = Py_Initialize(@, s)]
             w2 == [w1 EXCEPT !.py.sysPath = @ + 1]
         IN IF env = "noMainModule"
            THEN [w |-> cleanup([w2 EXCEPT
                                   !.executor[s].pMainModule = "null",
                                   !.executor[s].lastErrorMessage =
                                       "Failed to create main module"], s),
                  ok |-> FALSE]
            ELSE LET w3 == [w2 EXCEPT !.executor[s].pMainModule = "live"] IN
            IF env = "noGlobals"
            THEN [w |-> cleanup([w3 EXCEPT
                                   !.executor[s].pGlobals = "null",
                                   !.executor[s].lastErrorMessage =
                                       "Failed to get global dictionary"], s),
                  ok |-> FALSE]
            ELSE LET w4 == [w3 EXCEPT !.executor[s].pGlobals = "live"]
                     r == setupStdoutRedirection(w4, s, env)
                 IN IF ~r.ok THEN [w |-> cleanup(r.w, s), ok |-> FALSE]
                    ELSE LET w5 == IF r.w.executor[s].plotCaptureEnabled
                                   THEN setupPlotCapture(r.w, s, env)
                                   ELSE r.w
                             w6 == [w5 EXCEPT
                                      !.py.globals = [n \in Names |->
                                          IF n \in ImportNames THEN "<module>"
                                          ELSE @[n]]]
                         IN [w |-> [w6 EXCEPT !.executor[s].initialized = TRUE],
                             ok |-> TRUE]

\* PythonExecutor::restart
restart(w, s, env) == initialize(cleanup(w, s), s, env)

\* ------------------------------------------------------------- snippets

\* A snippet is the sequence of effects its top-level statements have when
\* evaluated in order: bind a name, write to sys.stdout or sys.stderr, raise,
\* draw a figure, rebind sys.stdout to an object of its own, delete a name,
\* or loop without end.
Stmt(op, name, val, text, kind, tb) ==
    [op |-> op, name |-> name, val |-> val, text |-> text, kind |-> kind, tb |-> tb]

Bind(n, v) == Stmt("bind", n, v, <<>>, "", FALSE)
Write(t) == Stmt("print", "", "", t, "", FALSE)
WriteErr(t) == Stmt("eprint", "", "", t, "", FALSE)
\* tb: the error carries a traceback (raised while running) or none (raised
\* by the compiler)
Raise(kind, msg, tb) == Stmt("raise", "", "", msg, kind, tb)
Loop == Stmt("loop", "", "", <<>>, "", FALSE)
Plot == Stmt("plot", "", "", <<>>, "", FALSE)
Rebind == Stmt("rebind", "", "", <<>>, "", FALSE)
Del(n) == Stmt("del", n, "", <<>>, "", FALSE)
\* a call that blocks for a while (time.sleep, a read): the interpreter gives
\* the lock up while it waits and takes it back afterwards
Sleep == Stmt("sleep", "", "", <<>>, "", FALSE)
\* what "del n" raises when n is not bound
NameError(n) == Raise("NameError", <<"name", n, "is not defined">>, TRUE)

Snippets ==
    { <<Bind("x", "1"), Write(<<"a", "\n">>)>>,
      <<Bind("x", "2"), Bind("y", "1")>>,
      <<Bind("y", "1"), WriteErr(<<"b", "\n">>), Raise("ValueError", <<"bad">>, TRUE)>>,
      <<Raise("SyntaxError", <<"bad">>, FALSE)>>,
      <<Write(<<"S", "J:text", "\n">>)>>,
      <<Write(<<"a", "\n">>), Loop>>,
      <<>> }

RECURSIVE StdoutOf(_)
StdoutOf(code) ==
    IF code = <<>> THEN <<>>
    ELSE (IF Head(code).op = "print" THEN Head(code).text ELSE <<>>) \o StdoutOf(Tail(code))

RECURSIVE StderrOf(_)
StderrOf(code) ==
    IF code = <<>> THEN <<>>
    ELSE (IF Head(code).op = "eprint" THEN Head(code).text ELSE <<>>) \o StderrOf(Tail(code))

\* ------------------------------------------------------------------ state

VARIABLES
    sessions,      \* the PythonExecutor objects the process has constructed
    executor,      \* the members of each PythonExecutor
    py,            \* the process-wide embedded runtime
    call,          \* the execute() call each session has in flight, if any
    returned,      \* what each session's last finished operation returned
    alarm,         \* seconds the pending alarm() was armed with, 0 when none
                   \* (see alarmSeconds for a negative value)
    sigHandler,    \* the process's SIGALRM disposition
    jumpSet,       \* static volatile sig_atomic_t jumpSet
    jumpBuffer,    \* the execute() frame saved in the static jmp_buf, 0 when none
    sigBlocked,    \* whether SIGALRM is blocked in the thread driving a session
    crashed,       \* the process has been terminated
    ui,            \* the main window that drives session 1, when there is one
    disk           \* the files the notebook's managers keep

vars == <<sessions, executor, py, call, returned, alarm, sigHandler, jumpSet,
          jumpBuffer, sigBlocked, crashed, ui, disk>>

World == [executor |-> executor, py |-> py]

NoResult ==
    [success |-> FALSE, textOutput |-> <<>>, error |-> <<>>, outputs |-> <<>>,
     plotData |-> <<>>]

NoCall ==
    [pc |-> "idle", code |-> <<>>, ip |-> 1, raised |-> FALSE,
     exc |-> Raise("", <<>>, FALSE), oldSa |-> "SIG_DFL", wrote |-> <<>>,
     blocked |-> FALSE]

\* op: the operation that finished last; path: the way it ended; ok and
\* result: what it returned; variables: the mapping a getVariables() returned;
\* wrote: what the snippet of an execute() wrote to sys.stdout; exc: the
\* error it raised; drew: the snippet drew a figure; plotGenerated: the image
\* bytes the call emitted plotGenerated with; text: the string a
\* getVariableType() or getVariableRepr() returned; emitted: the
\* executionStarted and executionFinished signals the call has emitted so
\* far, in order, executionFinished with its argument
Returned(op, path, ok, result) ==
    [op |-> op, path |-> path, ok |-> ok, result |-> result, variables |-> {},
     wrote |-> <<>>, exc |-> Raise("", <<>>, FALSE), drew |-> FALSE,
     plotGenerated |-> <<>>, text |-> <<>>, emitted |-> <<>>]

\* MainWindow::MainWindow: no handler is running, the kernel is not busy,
\* the variable inspector shows nothing.  pc: where the window's thread is
\* ("idle" in the event loop, "run" between the cells of a Run Cell or Run
\* All, "execute" inside executeCell's call of execute()); queue: the cells
\* the running handler has still to pass to executeCell.
\* cells: QList<CellWidget*> cells; widgets: the CellWidget objects that
\* exist; cellIndex: each one's cellIndex member (0-based, as in the code);
\* currentCell: 0 for nullptr; drag: the cellIndex carried by the drag in
\* progress, -1 when there is none; notebook: NotebookManager::cells.
\* The backup manager and its directory.  now: the clock that stamps the
\* files; backups: the backup files, each with the metadata file written
\* next to it, by name, modification time and the original_path of the
\* metadata; maxBackups: the manager's member.
\* ipynb: the Jupyter file the notebook is exported to, once it exists.
NoDisk == [now |-> 0, backups |-> {}, maxBackups |-> DEFAULT_MAX_BACKUPS,
           ipynb |-> [exists |-> FALSE, cells |-> <<>>]]

NoUi == [pc |-> "idle", queue |-> <<>>, kernelBusy |-> FALSE, inspector |-> {},
         cells |-> <<>>, widgets |-> {}, cellIndex |-> [c \in CellIds |-> -1],
         currentCell |-> 0, isModified |-> FALSE, dropIndicatorIndex |-> -1,
         drag |-> -1, currentFilePath |-> <<>>, notebook |-> <<>>]

Init ==
    /\ sessions = {1}
    /\ executor = [s \in SessionIds |-> NewExecutor]
    /\ py = NoRuntime
    /\ call = [s \in SessionIds |-> NoCall]
    /\ returned = [s \in SessionIds |-> Returned("new", "", TRUE, NoResult)]
    /\ alarm = 0
    /\ sigHandler = "SIG_DFL"
    /\ jumpSet = 0
    /\ jumpBuffer = 0
    /\ sigBlocked = [s \in SessionIds |-> FALSE]
    /\ crashed = FALSE
    /\ ui = NoUi
    /\ disk = NoDisk

\* The process is terminated: nothing of its memory or of its timers is left.
Terminate ==
    /\ crashed' = TRUE
    /\ executor' = [s \in SessionIds |-> NewExecutor]
    /\ py' = NoRuntime
    /\ call' = [s \in SessionIds |-> NoCall]
    /\ returned' = [s \in SessionIds |-> Returned("new", "", TRUE, NoResult)]
    /\ alarm' = 0
    /\ sigHandler' = "SIG_DFL"
    /\ jumpSet' = 0
    /\ jumpBuffer' = 0
    /\ sigBlocked' = [s \in SessionIds |-> FALSE]
    /\ ui' = NoUi
    /\ UNCHANGED <<sessions, disk>>

\* The caller may start an operation on s: the process runs and s is not
\* inside execute().
Callable(s) == ~crashed /\ s \in sessions /\ call[s].pc = "idle"

\* An initialize() the model follows: a failing one only while the bound on
\* sys.path leaves room.
EnvAllowed(env) == env \in {"ok", "plotScript"} \/ py.sysPath < MaxSysPath

sigVars == <<alarm, sigHandler, jumpSet, jumpBuffer, sigBlocked>>

\* ---------------------------------------------------------- the lifecycle

\* an initialize() that sets the session up again whatever its state
InitializeFromScratch(s, env) ==
    /\ Callable(s)
    /\ EnvAllowed(env)
    /\ LET r == restart(World, s, env) IN
         /\ executor' = r.w.executor
         /\ py' = r.w.py
         /\ returned' = [returned EXCEPT ![s] = Returned("initialize", "", r.ok, NoResult)]
    /\ UNCHANGED <<ui, disk, sessions, call, sigVars, crashed>>

Initialize(s, env) ==
    /\ Callable(s)
    /\ EnvAllowed(env)
    /\ LET r == initialize(World, s, env) IN
         /\ executor' = r.w.executor
         /\ py' = r.w.py
         /\ returned' = [returned EXCEPT ![s] = Returned("initialize", "", r.ok, NoResult)]
    /\ UNCHANGED <<ui, disk, sessions, call, sigVars, crashed>>

Cleanup(s) ==
    /\ Callable(s)
    /\ LET w == cleanup(World, s) IN
         /\ executor' = w.executor
         /\ py' = w.py
    /\ returned' = [returned EXCEPT ![s] = Returned("cleanup", "", TRUE, NoResult)]
    /\ UNCHANGED <<ui, disk, sessions, call, sigVars, crashed>>

Restart(s, env) ==
    /\ Callable(s)
    /\ EnvAllowed(env)
    /\ LET r == restart(World, s, env) IN
         /\ executor' = r.w.executor
         /\ py' = r.w.py
         /\ returned' = [returned EXCEPT ![s] = Returned("restart", "", r.ok, NoResult)]
    /\ UNCHANGED <<ui, disk, sessions, call, sigVars, crashed>>

\* PythonExecutor::interrupt
Interrupt(s) ==
    /\ ~crashed
    /\ s \in sessions
    /\ executor' = [executor EXCEPT ![s].executionInterrupted = TRUE]
    /\ UNCHANGED <<ui, disk, sessions, py, call, returned, sigVars, crashed>>

\* PythonExecutor::setExecutionTimeout
SetExecutionTimeout(s, milliseconds) ==
    /\ Callable(s)
    /\ executor' = [executor EXCEPT ![s].executionTimeout = milliseconds]
    /\ UNCHANGED <<ui, disk, sessions, py, call, returned, sigVars, crashed>>

\* PythonExecutor::enablePlotCapture
EnablePlotCapture(s, enable) ==
    /\ Callable(s)
    /\ executor' = [executor EXCEPT ![s].plotCaptureEnabled = enable]
    /\ UNCHANGED <<ui, disk, sessions, py, call, returned, sigVars, crashed>>

\* ---------------------------------------------------------------- execute

\* executionTimeout / 1000: the division of two ints, which rounds toward 0
seconds(milliseconds) ==
    IF milliseconds >= 0 THEN milliseconds \div 1000 ELSE -((-milliseconds) \div 1000)

\* alarm(executionTimeout / 1000): the seconds the deadline is armed with.
\* alarm() takes an unsigned int: the conversion keeps the 32 bits of the
\* quotient, and the model keeps them as the int they came from, so that a
\* negative value -n stands for the 2^32 - n seconds alarm() is armed with.
alarmSeconds(milliseconds) == seconds(milliseconds)

\* emit executionFinished(result.success), after the emit executionStarted()
\* that put the first entry

\* an executionFinished that is emitted after a success only
executionFinishedOnSuccess(emitted, success) ==
    IF success THEN emitted \o <<[signal |-> "executionFinished", success |-> success]>>
    ELSE emitted

executionFinished(emitted, success) ==
    emitted \o <<[signal |-> "executionFinished", success |-> success]>>

\* a tail of execute() that wraps the raw stream whenever no entry was parsed
CombineOutputWrapsNoEntries(result, stdoutText, stderrText) ==
    LET parsed == IF stdoutText # <<>> THEN parseRichOutputs(stdoutText) ELSE <<>>
        text == IF stdoutText # <<>> THEN trimmed(plainText(stdoutText)) ELSE <<>>
        outputs == IF stdoutText # <<>> /\ parsed = <<>>
                   THEN <<Output("Text", stdoutText, <<>>)>>
                   ELSE parsed
        error == IF stderrText = <<>> THEN result.error
                 ELSE IF result.error # <<>> THEN stderrText \o <<"\n">> \o result.error
                 ELSE stderrText
    IN [result EXCEPT !.outputs = outputs, !.textOutput = text, !.error = error]

\* The tail of execute() after the deadline is disarmed: the captured text
\* is split into textOutput and outputs, the error text is joined.
CombineOutput(result, stdoutText, stderrText) ==
    LET parsed == IF stdoutText # <<>> THEN parseRichOutputs(stdoutText) ELSE <<>>
        text == IF stdoutText # <<>> THEN trimmed(plainText(stdoutText)) ELSE <<>>
        outputs == IF stdoutText # <<>> /\ text = <<>> /\ parsed = <<>>
                   THEN <<Output("Text", stdoutText, <<>>)>>
                   ELSE parsed
        error == IF stderrText = <<>> THEN result.error
                 ELSE IF result.error # <<>> THEN stderrText \o <<"\n">> \o result.error
                 ELSE stderrText
    IN [result EXCEPT !.outputs = outputs, !.textOutput = text, !.error = error]

\* a tail of execute() that leaves timeoutHandler installed
DisarmWithoutRestore(s) ==
    /\ jumpSet' = 0
    /\ alarm' = 0
    /\ sigHandler' = sigHandler
    /\ jumpBuffer' = jumpBuffer

\* execute() from "jumpSet = 0" to the restored SIGALRM disposition
Disarm(s) ==
    /\ jumpSet' = 0
    /\ alarm' = 0
    /\ sigHandler' = call[s].oldSa
    /\ jumpBuffer' = jumpBuffer

\* a head of execute() that restarts the session on every call
ensureInitializedByRestart(w, s, env) == restart(w, s, env)

\* the lazy initialization at the head of execute()
ensureInitialized(w, s, env) ==
    IF w.executor[s].initialized THEN [w |-> w, ok |-> TRUE]
    ELSE initialize(w, s, env)

\* execute() up to setjmp: lazy initialization, the interrupt check, the
\* figures of earlier calls closed, arming.
ExecuteCall(s, code, env) ==
    /\ Callable(s)
    /\ IF executor[s].initialized THEN env = "ok" ELSE EnvAllowed(env)
    /\ \A t \in SessionIds :
          /\ Len(py.sinkOut[t]) + Len(StdoutOf(code)) <= MaxSink
          /\ Len(py.sinkErr[t]) + Len(StderrOf(code)) <= MaxSink
    /\ LET w0 == [World EXCEPT ![("executor")][s].executionInterrupted = FALSE]
           r == ensureInitialized(w0, s, env)
           e == r.w.executor[s]
       IN /\ executor' = r.w.executor
          /\ py' = IF r.ok /\ ~e.executionInterrupted /\ e.pPlotCaptureModule # "null"
                   THEN clear_plots(r.w.py)
                   ELSE r.w.py
          /\ IF ~r.ok
             THEN /\ returned' = [returned EXCEPT ![s] =
                        Returned("execute", "initFailed", FALSE,
                                 [NoResult EXCEPT !.error =
                                    IF e.lastErrorMessage = "" THEN <<>>
                                    ELSE <<e.lastErrorMessage>>])]
                  /\ UNCHANGED <<call, sigVars>>
             ELSE IF e.executionInterrupted
             THEN /\ returned' = [returned EXCEPT ![s] =
                        Returned("execute", "interrupted", FALSE,
                                 [NoResult EXCEPT !.error =
                                    <<"Execution interrupted by user">>])]
                  /\ UNCHANGED <<call, sigVars>>
             ELSE /\ call' = [call EXCEPT ![s] =
                        [NoCall EXCEPT !.pc = "eval", !.code = code,
                                       !.oldSa = sigHandler]]
                  /\ sigHandler' = "timeoutHandler"
                  /\ alarm' = alarmSeconds(e.executionTimeout)
                  /\ jumpSet' = 1
                  /\ jumpBuffer' = s
                  /\ returned' = [returned EXCEPT ![s] =
                        [Returned("execute", "running", FALSE, NoResult)
                           EXCEPT !.emitted = <<[signal |-> "executionStarted", success |-> FALSE]>>]]
                  /\ UNCHANGED sigBlocked
    /\ UNCHANGED <<sessions, crashed, disk>>

\* execute() called by a caller that is not the main window
ExecuteBegin(s, code, env) == ExecuteCall(s, code, env) /\ UNCHANGED ui

\* the statement deletes a name that __main__ does not bind
Unbound(st) == st.op = "del" /\ py.globals[st.name] = Absent

\* PythonExecutor::executeFile: a failure of its own when the file cannot be
\* opened, otherwise execute() on what the file holds
ExecuteFile(s, readable, code, env) ==
    IF readable THEN ExecuteBegin(s, code, env)
    ELSE /\ Callable(s)
         /\ returned' = [returned EXCEPT ![s] =
               Returned("executeFile", "unreadable", FALSE,
                        [NoResult EXCEPT !.error = <<"Cannot open file:", "path">>])]
         /\ UNCHANGED <<ui, disk, sessions, executor, py, call, sigVars, crashed>>

\* PyRun_StringFlags, one statement of the snippet at a time
EvalStep(s) ==
    /\ ~crashed
    /\ s \in sessions
    /\ call[s].pc = "eval"
    /\ ~call[s].raised
    /\ call[s].ip <= Len(call[s].code)
    /\ LET st == call[s].code[call[s].ip] IN
         /\ st.op # "loop"
         /\ IF st.op = "sleep" /\ ~call[s].blocked
            THEN \* Py_BEGIN_ALLOW_THREADS: the thread starts to wait
                 /\ py' = [py EXCEPT !.gil = IF @ = s THEN 0 ELSE @]
                 /\ call' = [call EXCEPT ![s].blocked = TRUE]
            ELSE IF st.op = "sleep"
            THEN \* Py_END_ALLOW_THREADS: the wait is over, the lock is free
                 /\ py.gil \in {0, s}
                 /\ py' = [py EXCEPT !.gil = s]
                 /\ call' = [call EXCEPT ![s].ip = @ + 1, ![s].blocked = FALSE]
            ELSE
                /\ py' = CASE st.op = "bind" -> [py EXCEPT !.globals[st.name] = st.val]
                           [] st.op = "del" -> [py EXCEPT !.globals[st.name] = Absent]
                           [] st.op = "plot" -> [py EXCEPT !.figure = TRUE]
                           [] st.op = "rebind" -> [py EXCEPT !.sysStdout = Channel("other", 0)]
                           [] st.op = "print" /\ py.sysStdout.kind = "sink" ->
                                  [py EXCEPT !.sinkOut[py.sysStdout.session] = @ \o st.text]
                           [] st.op = "eprint" /\ py.sysStderr.kind = "sink" ->
                                  [py EXCEPT !.sinkErr[py.sysStderr.session] = @ \o st.text]
                           [] OTHER -> py
                /\ call' = [call EXCEPT ![s].ip = @ + 1,
                                        ![s].raised = (st.op = "raise" \/ Unbound(st)),
                                        ![s].exc = IF st.op = "raise" THEN st
                                                   ELSE IF Unbound(st) THEN NameError(st.name)
                                                   ELSE @,
                                        ![s].wrote = IF st.op = "print" THEN @ \o st.text ELSE @]
    /\ UNCHANGED <<ui, disk, sessions, executor, returned, sigVars, crashed>>

\* the error string execute() builds from PyErr_Fetch: str(value), with the
\* formatted traceback before it when there is one
errorMsg(exc) == (IF exc.tb THEN <<"Traceback">> ELSE <<>>) \o exc.text

\* the snippet of the call in flight has drawn a figure
Drew(s) == \E i \in 1..(call[s].ip - 1) : call[s].code[i].op = "plot"

\* execute() after PyRun_StringFlags has returned: result or error, the
\* figure captured after a success, the sinks read and cleared, the deadline
\* disarmed, the result returned.  capturePlot emits plotGenerated and
\* assigns nothing to the result.
ExecuteEnd(s) ==
    /\ ~crashed
    /\ s \in sessions
    /\ call[s].pc = "eval"
    /\ call[s].raised \/ call[s].ip > Len(call[s].code)
    /\ LET result == IF call[s].raised
                     THEN [NoResult EXCEPT !.error = errorMsg(call[s].exc)]
                     ELSE [NoResult EXCEPT !.success = TRUE]
           hasOut == executor[s].pStdout # "null"
           hasErr == executor[s].pStderr # "null"
           stdoutText == IF hasOut THEN py.sinkOut[s] ELSE <<>>
           stderrText == IF hasErr THEN py.sinkErr[s] ELSE <<>>
       IN /\ py' = [py EXCEPT !.sinkOut[s] = IF hasOut THEN <<>> ELSE @,
                              !.sinkErr[s] = IF hasErr THEN <<>> ELSE @]
          /\ returned' = [returned EXCEPT ![s] =
                [Returned("execute", IF call[s].raised THEN "error" ELSE "normal",
                          result.success, CombineOutput(result, stdoutText, stderrText))
                   EXCEPT !.wrote = call[s].wrote, !.exc = call[s].exc,
                          !.drew = Drew(s),
                          !.emitted = executionFinished(returned[s].emitted,
                                                        result.success),
                          !.plotGenerated =
                              IF result.success /\ executor[s].plotCaptureEnabled
                              THEN capturePlot(World, s) ELSE <<>>]]
    /\ Disarm(s)
    /\ call' = [call EXCEPT ![s] = NoCall]
    /\ UNCHANGED <<ui, disk, sessions, executor, sigBlocked, crashed>>

\* the branch of execute() that longjmp lands in
timeoutResult(s) ==
    [NoResult EXCEPT !.error =
        <<"Execution timed out after", ToString(seconds(executor[s].executionTimeout)),
          "seconds">>]

\* The alarm goes off and SIGALRM is delivered to a thread t that does not
\* block it.  timeoutHandler jumps when jumpSet is set: into the execute()
\* frame saved in jumpBuffer, which then finishes on its timeout branch.
\* setjmp saves no signal mask, so whether SIGALRM is still blocked after
\* the jump out of the handler is the platform's choice (blockedAfter).
\* Jumping into a frame of another thread, and the default disposition,
\* end the process.  A SIGALRM raised while every thread blocks it stays
\* pending for good: nothing in the program unblocks the signal.
Deliver(t, blockedAfter) ==
    IF sigHandler = "SIG_DFL" \/ (jumpSet = 1 /\ (jumpBuffer # t \/ call[t].pc # "eval"))
    THEN Terminate
    ELSE IF jumpSet = 0
    THEN /\ alarm' = 0
         /\ UNCHANGED <<ui, disk, sessions, executor, py, call, returned, sigHandler, jumpSet,
                        jumpBuffer, sigBlocked, crashed>>
    ELSE /\ py' = [py EXCEPT !.unwound = TRUE]
         /\ sigBlocked' = [sigBlocked EXCEPT ![t] = blockedAfter]
         /\ returned' = [returned EXCEPT ![t] =
               [Returned("execute", "timeout", FALSE,
                         CombineOutput(timeoutResult(t), <<>>, <<>>))
                  EXCEPT !.wrote = call[t].wrote, !.drew = Drew(t),
                         !.emitted = executionFinished(returned[t].emitted, FALSE)]]
         /\ Disarm(t)
         /\ call' = [call EXCEPT ![t] = NoCall]
         /\ UNCHANGED <<ui, disk, sessions, executor, crashed>>

AlarmExpire ==
    /\ ~crashed
    /\ alarm # 0
    /\ IF \A t \in sessions : sigBlocked[t]
       THEN /\ alarm' = 0
            /\ UNCHANGED <<ui, disk, sessions, executor, py, call, returned, sigHandler, jumpSet,
                           jumpBuffer, sigBlocked, crashed>>
       ELSE \E t \in {u \in sessions : ~sigBlocked[u]} :
               \E blockedAfter \in BOOLEAN : Deliver(t, blockedAfter)

\* Evaluating in a runtime that an earlier forced unwind left in the middle
\* of an evaluation is undefined: it may also end the process.
Crash(s) ==
    /\ ~crashed
    /\ s \in sessions
    /\ call[s].pc = "eval"
    /\ py.unwound
    /\ Terminate

\* ------------------------------------------------------ variable snapshot

\* name.startsWith("_") and name.startsWith("__")
startsWithUnderscore(name) == name \in PrivateNames \cup DunderNames \cup DoubleNames
\* a test that takes no name to start with two underscores
startsWithTwoUnderscoresNever(name) == FALSE

startsWithTwoUnderscores(name) == name \in DunderNames \cup DoubleNames

ExcludedNames == {"In", "Out", "exit", "quit", "get_ipython", "open", "__name__",
                  "__builtins__", "__doc__", "__loader__", "__spec__", "__package__"}

\* QString::left
left(t, n) == SubSeq(t, 1, IF n < Len(t) THEN n ELSE Len(t))

\* VariableInspector::parsePythonValue
maxLength == 100

parsePythonValue(repr) ==
    IF Len(repr) <= maxLength THEN repr ELSE left(repr, maxLength) \o <<".", ".", ".">>

\* The values a snippet binds: the integers 1 and 2 and two strings, of 98
\* and of 99 characters "a".
ShortStr == "'a'*98"
LongStr == "'a'*99"

\* PyObject_Repr as text: one token per character for a string (its quotes
\* included) and for an integer; the representation of a module, of a class
\* or of the plot helper, a few dozen characters, is one token.
PyObject_Repr(v) ==
    CASE v = ShortStr -> <<"'">> \o [i \in 1..98 |-> "a"] \o <<"'">>
      [] v = LongStr -> <<"'">> \o [i \in 1..99 |-> "a"] \o <<"'">>
      [] OTHER -> <<v>>

typeName(v) ==
    CASE v \in {"1", "2"} -> "int"
      [] v = "<module>" -> "module"
      [] v = "<class>" -> "type"
      [] v = "<PlotCapture>" -> "PlotCapture"
      [] OTHER -> "str"

\* a getVariables() that applies the private-name rule alone
getVariablesPrivateRuleOnly(s) ==
    IF ~executor[s].initialized \/ executor[s].pGlobals = "null" THEN {}
    ELSE { [name |-> n, type |-> typeName(py.globals[n]),
            value |-> PyObject_Repr(py.globals[n])] :
             n \in { m \in Names :
                       /\ py.globals[m] # Absent
                       /\ ~(startsWithUnderscore(m) /\ ~startsWithTwoUnderscores(m)) } }

\* PythonExecutor::getVariables
getVariables(s) ==
    IF ~executor[s].initialized \/ executor[s].pGlobals = "null" THEN {}
    ELSE { [name |-> n, type |-> typeName(py.globals[n]),
            value |-> PyObject_Repr(py.globals[n])] :
             n \in { m \in Names :
                       /\ py.globals[m] # Absent
                       /\ ~(startsWithUnderscore(m) /\ ~startsWithTwoUnderscores(m))
                       /\ m \notin ExcludedNames } }

\* PyGILState_Ensure by thread t, which waits until the lock is free, and the
\* PyGILState_Release that undoes it
PyGILState_Ensure(p, t) ==
    IF p.gil = t THEN [py |-> p, gstate |-> "PyGILState_LOCKED"]
    ELSE [py |-> [p EXCEPT !.gil = t], gstate |-> "PyGILState_UNLOCKED"]

PyGILState_Release(p, gstate) ==
    IF gstate = "PyGILState_UNLOCKED" THEN [p EXCEPT !.gil = 0] ELSE p

\* the lock as an inspection call of s leaves it: untouched on the early
\* return, taken and given back on every other path
Inspected(s) ==
    IF ~executor[s].initialized \/ executor[s].pGlobals = "null" THEN py
    ELSE LET g == PyGILState_Ensure(py, s) IN PyGILState_Release(g.py, g.gstate)

\* the inspection call of s need not wait for the lock
LockFree(s) ==
    ~executor[s].initialized \/ executor[s].pGlobals = "null" \/ py.gil \in {0, s}

\* a getVariables() that initializes the session first, as execute() does
GetVariablesInitializing(s) ==
    /\ Callable(s)
    /\ LET r == ensureInitialized(World, s, "ok") IN
         /\ executor' = r.w.executor
         /\ py' = r.w.py
         /\ returned' = [returned EXCEPT ![s] =
               [Returned("getVariables", "", TRUE, NoResult) EXCEPT
                   !.variables =
                       { [name |-> n, type |-> typeName(r.w.py.globals[n]),
                          value |-> PyObject_Repr(r.w.py.globals[n])] :
                            n \in { m \in UserNames : r.w.py.globals[m] # Absent } }]]
    /\ UNCHANGED <<sessions, call, sigVars, crashed, disk>>

\* a call of getVariables(), by any caller
GetVariablesCall(s) ==
    /\ Callable(s)
    /\ LockFree(s)
    /\ py' = Inspected(s)
    /\ returned' = [returned EXCEPT ![s] =
          [Returned("getVariables", "", TRUE, NoResult) EXCEPT
              !.variables = getVariables(s)]]
    /\ UNCHANGED <<sessions, executor, call, sigVars, crashed, disk>>

\* getVariables() called by a caller that is not the main window
GetVariables(s) == GetVariablesCall(s) /\ UNCHANGED ui

\* PythonExecutor::getVariableType and getVariableRepr: the empty string
\* before initialization and for a name that is not bound.  (The key of a
\* name of the model can always be made.)
getVariableType(s, name) ==
    IF ~executor[s].initialized \/ executor[s].pGlobals = "null" THEN <<>>
    ELSE IF py.globals[name] = Absent THEN <<>>
    ELSE <<typeName(py.globals[name])>>

getVariableRepr(s, name) ==
    IF ~executor[s].initialized \/ executor[s].pGlobals = "null" THEN <<>>
    ELSE IF py.globals[name] = Absent THEN <<>>
    ELSE PyObject_Repr(py.globals[name])

GetVariableType(s, name) ==
    /\ Callable(s)
    /\ LockFree(s)
    /\ py' = Inspected(s)
    /\ returned' = [returned EXCEPT ![s] =
          [Returned("getVariableType", "", TRUE, NoResult) EXCEPT
              !.text = getVariableType(s, name)]]
    /\ UNCHANGED <<ui, disk, sessions, executor, call, sigVars, crashed>>

GetVariableRepr(s, name) ==
    /\ Callable(s)
    /\ LockFree(s)
    /\ py' = Inspected(s)
    /\ returned' = [returned EXCEPT ![s] =
          [Returned("getVariableRepr", "", TRUE, NoResult) EXCEPT
              !.text = getVariableRepr(s, name)]]
    /\ UNCHANGED <<ui, disk, sessions, executor, call, sigVars, crashed>>

\* ---------------------------------------------------------- main window

\* The code cells of the open notebook, in their order: one whose snippet
\* never ends by itself, an empty one, and one that binds a name.
NotebookCells == << <<Loop>>, <<>>, <<Bind("x", "1")>> >>

sessionVars == <<sessions, executor, py, call, returned, sigVars, crashed>>

\* what a handler that stays inside the window leaves alone
executorVars == <<sessionVars, disk>>

\* The window's thread is in the event loop: a handler may start.
UiIdle == ~crashed /\ ui.pc = "idle"

\* MainWindow::onActionRunCell on cell c: executeCell(c)
OnActionRunCell(c) ==
    /\ UiIdle
    /\ ui' = [ui EXCEPT !.pc = "run", !.queue = <<NotebookCells[c]>>]
    /\ UNCHANGED executorVars

\* MainWindow::onActionRunAll: executeCell on every code cell, in order
OnActionRunAll ==
    /\ UiIdle
    /\ ui' = [ui EXCEPT !.pc = "run", !.queue = NotebookCells]
    /\ UNCHANGED executorVars

\* the handler goes on with the cells left, or is over
Advance(u) ==
    [u EXCEPT !.queue = Tail(@),
              !.pc = IF Tail(u.queue) = <<>> THEN "idle" ELSE "run"]

\* MainWindow::executeCell up to its call of execute(): nothing for a cell
\* without code; otherwise the kernel is busy and execute() is called.
ExecuteCell(s) ==
    /\ ~crashed
    /\ s \in sessions
    /\ ui.pc = "run"
    /\ IF Head(ui.queue) = <<>>
       THEN /\ ui' = Advance(ui)
            /\ UNCHANGED executorVars
       ELSE /\ ExecuteCall(s, Head(ui.queue), "ok")
            /\ ui' = [ui EXCEPT !.pc = "execute", !.kernelBusy = TRUE]

\* MainWindow::onRefreshVariables: nothing before the session is
\* initialized; otherwise the inspector is cleared and filled with the
\* mapping getVariables() returns.
OnRefreshVariables(s, u) ==
    IF ~executor[s].initialized
    THEN /\ ui' = u
         /\ UNCHANGED executorVars
    ELSE /\ GetVariablesCall(s)
         /\ ui' = [u EXCEPT !.inspector = getVariables(s)]

\* MainWindow::executeCell after execute() has returned: the kernel is no
\* longer busy, and the inspector is refreshed after a success.
ExecuteCellReturn(s) ==
    /\ ~crashed
    /\ s \in sessions
    /\ ui.pc = "execute"
    /\ call[s].pc = "idle"
    /\ LET u == Advance([ui EXCEPT !.kernelBusy = FALSE]) IN
         IF returned[s].result.success
         THEN OnRefreshVariables(s, u)
         ELSE /\ ui' = u
              /\ UNCHANGED executorVars

\* the inspector's refresh button: refreshRequested reaches
\* MainWindow::onRefreshVariables
OnRefreshRequested(s) ==
    /\ UiIdle
    /\ s \in sessions
    /\ executor[s].initialized
    /\ OnRefreshVariables(s, ui)

\* MainWindow::onActionRestartKernel, confirmed in its dialog
OnActionRestartKernel(s) ==
    /\ UiIdle
    /\ Restart(s, "ok")

\* ---------------------------------------------------------- cell list

\* QList, with the 0-based indices of the code
indexOf(list, c) ==
    IF \E i \in 1..Len(list) : list[i] = c
    THEN (CHOOSE i \in 1..Len(list) :
             list[i] = c /\ \A j \in 1..(i - 1) : list[j] # c) - 1
    ELSE -1

takeAt(list, i) == SubSeq(list, 1, i) \o SubSeq(list, i + 2, Len(list))

insert(list, i, c) == SubSeq(list, 1, i) \o <<c>> \o SubSeq(list, i + 1, Len(list))

\* MainWindow::setModified
setModified(u, modified) == [u EXCEPT !.isModified = modified]

\* MainWindow::updateCellIndices
updateCellIndicesNever(u) == u

updateCellIndices(u) ==
    [u EXCEPT !.cellIndex =
        [c \in CellIds |-> IF indexOf(u.cells, c) >= 0
                           THEN indexOf(u.cells, c) ELSE @[c]]]

\* MainWindow::reorderCells
reorderCells(u, fromIndex, toIndex) ==
    IF fromIndex < 0 \/ fromIndex >= Len(u.cells) THEN u
    ELSE IF toIndex < 0 \/ toIndex >= Len(u.cells) THEN u
    ELSE LET cell == u.cells[fromIndex + 1] IN
           setModified(
               updateCellIndices(
                   [u EXCEPT !.cells = insert(takeAt(@, fromIndex), toIndex, cell)]),
               TRUE)

\* MainWindow::moveCell
moveCell(u, cell, direction) ==
    LET index == indexOf(u.cells, cell)
        newIndex == index + direction
    IN IF index < 0 THEN u
       ELSE IF newIndex < 0 \/ newIndex >= Len(u.cells) THEN u
       ELSE setModified(reorderCells(u, index, newIndex), TRUE)

\* The window is in its event loop and no drag is under way.
CellsIdle == UiIdle /\ ui.drag = -1

\* MainWindow::addCodeCell: a new CellWidget is appended, the indices are
\* rewritten (which replaces the index the constructor gave the widget), the
\* new cell is the current one and the notebook is modified.
AddCodeCell ==
    /\ CellsIdle
    /\ Len(ui.cells) < MaxCells
    /\ LET cell == CHOOSE c \in CellIds : c \notin ui.widgets IN
         ui' = setModified(
                  [updateCellIndices([ui EXCEPT !.widgets = @ \cup {cell},
                                               !.cells = Append(@, cell)])
                      EXCEPT !.currentCell = cell],
                  TRUE)
    /\ UNCHANGED executorVars

\* MainWindow::deleteCurrentCell
DeleteCurrentCell ==
    /\ CellsIdle
    /\ ui.currentCell # 0
    /\ LET index == indexOf(ui.cells, ui.currentCell)
           removed == updateCellIndices(
                          [ui EXCEPT !.cells = takeAt(@, index),
                                     !.widgets = @ \ {ui.currentCell},
                                     !.cellIndex[ui.currentCell] = -1])
       IN ui' = IF index < 0 THEN ui
                ELSE setModified(
                         [removed EXCEPT !.currentCell =
                             IF index < Len(removed.cells) THEN removed.cells[index + 1]
                             ELSE IF removed.cells # <<>>
                                  THEN removed.cells[Len(removed.cells)]
                                  ELSE 0],
                         TRUE)
    /\ UNCHANGED executorVars

\* MainWindow::onCellMoveUp / onCellMoveDown, from the cell's own buttons
OnCellMoveUp(cell) ==
    /\ CellsIdle
    /\ cell \in ui.widgets
    /\ ui' = moveCell(ui, cell, -1)
    /\ UNCHANGED executorVars

OnCellMoveDown(cell) ==
    /\ CellsIdle
    /\ cell \in ui.widgets
    /\ ui' = moveCell(ui, cell, 1)
    /\ UNCHANGED executorVars

\* ---------------------------------------------------------- backups

\* BackupManager::listBackups.  A notebook file is named by the words of
\* its base name, which getBackupKey joins with "_"; the name filter
\* "<key>_*.backup" matches what starts with them; QDir::Time lists the most
\* recently modified file first and QDir::Reversed turns that order round.
listBackups(d, originalPath) ==
    LET key == originalPath
        matches(name) == Len(name) > Len(key) /\ SubSeq(name, 1, Len(key)) = key
        RECURSIVE newestFirst(_)
        newestFirst(S) ==
            IF S = {} THEN <<>>
            ELSE LET f == CHOOSE x \in S :
                             \A y \in S : y.lastModified <= x.lastModified
                 IN <<f>> \o newestFirst(S \ {f})
        files == newestFirst({ f \in d.backups : matches(f.name) })
    IN [i \in 1..Len(files) |-> files[Len(files) + 1 - i]]

\* BackupManager::cleanupOldBackups: takeLast() and remove, the backup file
\* and its metadata file, while the listing is longer than maxBackups
cleanupOldBackups(d, originalPath) ==
    LET backups == listBackups(d, originalPath)
        RECURSIVE loop(_, _)
        loop(list, dir) ==
            IF Len(list) > d.maxBackups
            THEN loop(SubSeq(list, 1, Len(list) - 1), dir \ {list[Len(list)]})
            ELSE dir
    IN [d EXCEPT !.backups = loop(backups, @)]

\* BackupManager::createBackup on an initialized manager whose directory
\* can be written: the backup file and its metadata file, then the cleanup
createBackup(d, originalPath) ==
    LET at == [d EXCEPT !.now = @ + 1]
        \* generateBackupPath: <key>_<timestamp>.backup
        file == [name |-> originalPath \o <<at.now>>,
                 lastModified |-> at.now,
                 original_path |-> originalPath]
    IN cleanupOldBackups([at EXCEPT !.backups = @ \cup {file}], originalPath)

\* BackupManager::setMaxBackups
SetMaxBackups(max) ==
    /\ CellsIdle
    /\ disk' = [disk EXCEPT !.maxBackups = IF max > 1 THEN max ELSE 1]
    /\ UNCHANGED <<ui, sessionVars>>

\* MainWindow::saveToFile on a file that can be written: the notebook is
\* saved under filePath, is no longer modified, and a backup is created.
SaveToFile(filePath) ==
    /\ CellsIdle
    /\ disk.now < MaxSaves
    /\ ui' = setModified([ui EXCEPT !.currentFilePath = filePath], FALSE)
    /\ disk' = createBackup(disk, filePath)
    /\ UNCHANGED sessionVars

\* CellWidget::mouseMoveEvent past the drag threshold: a drag starts whose
\* MIME data carries the cell's cellIndex
MouseMoveEvent(cell) ==
    /\ CellsIdle
    /\ cell \in ui.widgets
    /\ ui' = [ui EXCEPT !.drag = ui.cellIndex[cell]]
    /\ UNCHANGED executorVars

\* MainWindow::updateDropIndicator: the index of the first cell whose middle
\* is below the pointer, the number of cells when there is none.  Cell i
\* (0-based) has its top at 2 * i and is 2 high; the pointer is at
\* 0 .. 2 * MaxCells.
updateDropIndicator(u, y) ==
    LET top(i) == 2 * i
        height == 2
        below == { i \in 0..(Len(u.cells) - 1) : y < top(i) + height \div 2 }
    IN [u EXCEPT !.dropIndicatorIndex =
           IF below = {} THEN Len(u.cells)
           ELSE CHOOSE i \in below : \A j \in below : i <= j]

\* MainWindow::dragMoveEvent
DragMoveEvent(y) ==
    /\ UiIdle
    /\ ui.drag >= 0
    /\ ui' = updateDropIndicator(ui, y)
    /\ UNCHANGED executorVars

\* MainWindow::dropEvent
DropEvent ==
    /\ UiIdle
    /\ ui.drag >= 0
    /\ LET sourceIndex == ui.drag
           targetIndex == ui.dropIndicatorIndex
       IN ui' = [(IF sourceIndex # targetIndex
                  THEN reorderCells(ui, sourceIndex, targetIndex)
                  ELSE ui) EXCEPT !.drag = -1]
    /\ UNCHANGED executorVars

\* ---------------------------------------------------------- Jupyter files

\* NotebookManager::CellData, with contents of one line and of two lines,
\* character by character
CellDatas ==
    LET Contents == { <<"a">>, <<"a", "\n", "b">> } IN
    { [type |-> "CodeCell", content |-> c, executionCount |-> n, wasExecuted |-> n > 0] :
          c \in Contents, n \in {0, 1} }
    \cup { [type |-> "MarkdownCell", content |-> c, executionCount |-> 0,
            wasExecuted |-> FALSE] : c \in Contents }

\* NotebookManager::exportToIpynb on a file that can be written: the cells
\* array of the document; execution_count is a key of code cells that were
\* executed only
exportToIpynb(cells) ==
    [exists |-> TRUE,
     cells |-> [i \in 1..Len(cells) |->
                  [cell_type |-> IF cells[i].type = "CodeCell" THEN "code" ELSE "markdown",
                   has_execution_count |->
                       cells[i].type = "CodeCell" /\ cells[i].executionCount > 0,
                   execution_count |->
                       IF cells[i].type = "CodeCell" /\ cells[i].executionCount > 0
                       THEN cells[i].executionCount ELSE 0,
                   source |-> split(cells[i].content)]]]

\* NotebookManager::convertIpynbToLotus, for the cells of a document; join
\* is source += sourceLine.toString() over the source array
convertIpynbToLotus(ipynbJson) ==
    [i \in 1..Len(ipynbJson.cells) |->
        LET RECURSIVE join(_)
            join(sourceArray) ==
                IF sourceArray = <<>> THEN <<>>
                ELSE Head(sourceArray) \o join(Tail(sourceArray))
            cellJson == ipynbJson.cells[i]
            execCount == IF cellJson.has_execution_count
                         THEN cellJson.execution_count ELSE 0
        IN IF cellJson.cell_type = "code"
           THEN [type |-> "CodeCell", content |-> join(cellJson.source),
                 executionCount |-> execCount, wasExecuted |-> execCount > 0]
           ELSE [type |-> "MarkdownCell", content |-> join(cellJson.source),
                 executionCount |-> 0, wasExecuted |-> FALSE]]

\* NotebookManager::addCell
AddCell(cell) ==
    /\ UiIdle
    /\ Len(ui.notebook) < MaxNotebook
    /\ ui' = [ui EXCEPT !.notebook = Append(@, cell)]
    /\ UNCHANGED executorVars

\* NotebookManager::exportToIpynb
ExportToIpynb ==
    /\ UiIdle
    /\ disk' = [disk EXCEPT !.ipynb = exportToIpynb(ui.notebook)]
    /\ UNCHANGED <<ui, sessionVars>>

\* NotebookManager::importFromIpynb of the file written before
ImportFromIpynb ==
    /\ UiIdle
    /\ disk.ipynb.exists
    /\ ui' = [ui EXCEPT !.notebook = convertIpynbToLotus(disk.ipynb)]
    /\ UNCHANGED executorVars

\* ---------------------------------------------------------- specification

Next ==
    \/ \E s \in SessionIds, env \in InitEnvs : Initialize(s, env)
    \/ \E s \in SessionIds : Cleanup(s)
    \/ \E s \in SessionIds, env \in InitEnvs : Restart(s, env)
    \/ \E s \in SessionIds : Interrupt(s)
    \/ \E s \in SessionIds, ms \in TimeoutChoices : SetExecutionTimeout(s, ms)
    \/ \E s \in SessionIds, code \in Snippets, env \in InitEnvs : ExecuteBegin(s, code, env)
    \/ \E s \in SessionIds : EvalStep(s)
    \/ \E s \in SessionIds : ExecuteEnd(s)
    \/ AlarmExpire
    \/ \E s \in SessionIds : Crash(s)
    \/ \E s \in SessionIds : GetVariables(s)

\* One session, driven by one thread: the notebook's own use of the executor.
Spec == Init /\ [][Next]_vars

\* Two sessions, each driven by a thread of its own, both initialized on the
\* runtime they share (initialize() on session 1, then on session 2), and
\* callers that only run snippets from then on.
ConcSnippets ==
    { <<Bind("x", "1"), Write(<<"a", "\n">>)>>,
      <<Write(<<"a", "\n">>), Loop>> }

ConcWorld ==
    initialize(initialize([executor |-> [s \in SessionIds |-> NewExecutor],
                           py |-> NoRuntime], 1, "ok").w, 2, "ok").w

InitConc ==
    /\ sessions = SessionIds
    /\ executor = ConcWorld.executor
    /\ py = ConcWorld.py
    /\ call = [s \in SessionIds |-> NoCall]
    /\ returned = [s \in SessionIds |-> Returned("initialize", "", TRUE, NoResult)]
    /\ alarm = 0
    /\ sigHandler = "SIG_DFL"
    /\ jumpSet = 0
    /\ jumpBuffer = 0
    /\ sigBlocked = [s \in SessionIds |-> FALSE]
    /\ crashed = FALSE
    /\ ui = NoUi
    /\ disk = NoDisk

NextConc ==
    \/ \E s \in SessionIds, code \in ConcSnippets : ExecuteBegin(s, code, "ok")
    \/ \E s \in SessionIds : EvalStep(s)
    \/ \E s \in SessionIds : ExecuteEnd(s)
    \/ AlarmExpire
    \/ \E s \in SessionIds : Crash(s)

SpecConc == InitConc /\ [][NextConc]_vars

\* The operating system delivers a pending alarm, the interpreter runs the
\* next statement, and an execute() whose evaluation is over returns.
Fairness ==
    /\ WF_vars(AlarmExpire)
    /\ \A s \in SessionIds : WF_vars(EvalStep(s)) /\ WF_vars(ExecuteEnd(s))

FairSpec == Spec /\ Fairness

\* One session whose snippets act on what the runtime shares with the
\* executor: the figures of the plotting library and sys.stdout.  The caller
\* runs snippets, switches plot capture and restarts; the plot helper script
\* may fail to install.
EffectSnippets ==
    { <<Bind("x", "1"), Plot>>,
      <<Plot, Loop>>,
      <<Rebind>>,
      <<Write(<<"a", "\n">>)>>,
      <<>> }

EffectEnvs == {"ok", "plotScript"}

NextEffects ==
    \/ \E s \in SessionIds, code \in EffectSnippets, env \in EffectEnvs :
          ExecuteBegin(s, code, env)
    \/ \E s \in SessionIds : EvalStep(s)
    \/ \E s \in SessionIds : ExecuteEnd(s)
    \/ AlarmExpire
    \/ \E s \in SessionIds : Crash(s)
    \/ \E s \in SessionIds, enable \in BOOLEAN : EnablePlotCapture(s, enable)
    \/ \E s \in SessionIds, env \in EffectEnvs : Restart(s, env)

SpecEffects == Init /\ [][NextEffects]_vars

\* The captured streams whose splitting is examined: up to MaxLines lines,
\* each a plain line, a blank one or a sentinel line with a well-formed, a
\* padded, an unrecognized or a malformed payload, joined by line breaks and
\* ending with or without one; and every single sentinel line with one JSON
\* document as its payload.
StreamLines ==
    { <<>>, <<" ">>, <<"a">>, <<" ", "S", "J:text">>,
      <<"S", "J:text">>, <<"S", "J:image">>, <<"S", " ", "J:html", " ">>,
      <<"S", "J:other">>, <<"S", "a">>, <<"S">> }

SingleLines == { <<"S", j>> : j \in JsonTokens }

LineSeqs ==
    { <<>> } \cup { <<l>> : l \in SingleLines }
        \cup UNION { [1..n -> StreamLines] : n \in 1..MaxLines }

RECURSIVE JoinLines(_)
JoinLines(lines) ==
    IF lines = <<>> THEN <<>>
    ELSE IF Len(lines) = 1 THEN Head(lines)
    ELSE Head(lines) \o <<"\n">> \o JoinLines(Tail(lines))

\* One session in the middle of an execute(): its snippet has written one
\* stream to sys.stdout and has finished, or has raised after writing.
\* The call then returns.
OutputWorld ==
    initialize([executor |-> [s \in SessionIds |-> NewExecutor], py |-> NoRuntime],
               1, "ok").w

InitOutput ==
    \E lines \in LineSeqs, newline \in BOOLEAN, failed \in BOOLEAN :
        LET stream == JoinLines(lines) \o (IF newline THEN <<"\n">> ELSE <<>>)
            exc == Raise("ValueError", <<"bad">>, TRUE)
            code == <<Write(stream)>> \o (IF failed THEN <<exc>> ELSE <<>>)
        IN /\ sessions = {1}
           /\ executor = OutputWorld.executor
           /\ py = [OutputWorld.py EXCEPT !.sinkOut[1] = stream]
           /\ call = [s \in SessionIds |->
                        IF s = 1
                        THEN [NoCall EXCEPT !.pc = "eval", !.code = code,
                                            !.ip = Len(code) + 1,
                                            !.raised = failed,
                                            !.exc = IF failed THEN exc ELSE @,
                                            !.wrote = stream]
                        ELSE NoCall]
           /\ returned = [s \in SessionIds |->
                            IF s = 1
                            THEN [Returned("execute", "running", FALSE, NoResult)
                                    EXCEPT !.emitted = <<[signal |-> "executionStarted", success |-> FALSE]>>]
                            ELSE Returned("new", "", TRUE, NoResult)]
           /\ alarm = alarmSeconds(OutputWorld.executor[1].executionTimeout)
           /\ sigHandler = "timeoutHandler"
           /\ jumpSet = 1
           /\ jumpBuffer = 1
           /\ sigBlocked = [s \in SessionIds |-> FALSE]
           /\ crashed = FALSE
           /\ ui = NoUi
           /\ disk = NoDisk
    /\ ui = NoUi
    /\ disk = NoDisk

NextOutput == \E s \in SessionIds : ExecuteEnd(s)

SpecOutput == InitOutput /\ [][NextOutput]_vars

\* One session whose snippets bind and delete names of every kind the
\* snapshot tells apart: plain names, a private one, names of the exclusion
\* list, names with two leading underscores, and strings whose
\* representation is as long as the display cap or longer.  The caller runs
\* snippets to their end, asks for snapshots, and tears the session down.
SnapshotSnippets ==
    { <<Bind("x", "1"), Bind("_tmp", "1")>>,
      <<Bind("open", "1"), Bind("In", "2"), Bind("__name__", "2")>>,
      <<Bind("__secret", "1"), Bind("__own__", "2")>>,
      <<Bind("y", ShortStr)>>,
      <<Bind("y", LongStr)>>,
      <<Del("x")>> }

NextSnapshot ==
    \/ \E s \in SessionIds, code \in SnapshotSnippets : ExecuteBegin(s, code, "ok")
    \/ \E s \in SessionIds : EvalStep(s)
    \/ \E s \in SessionIds : ExecuteEnd(s)
    \/ \E s \in SessionIds : GetVariables(s)
    \/ \E s \in SessionIds : Cleanup(s)

SpecSnapshot == Init /\ [][NextSnapshot]_vars

\* One session driven by one thread, with snippets that block: the caller
\* runs snippets and inspects the namespace between them, never restarting.
LockSnippets ==
    { <<Bind("x", "1")>>,
      <<Sleep, Bind("y", "1")>>,
      <<Raise("ValueError", <<"bad">>, TRUE)>>,
      <<Loop>> }

NextLock ==
    \/ \E s \in SessionIds, code \in LockSnippets : ExecuteBegin(s, code, "ok")
    \/ \E s \in SessionIds : EvalStep(s)
    \/ \E s \in SessionIds : ExecuteEnd(s)
    \/ AlarmExpire
    \/ \E s \in SessionIds : Crash(s)
    \/ \E s \in SessionIds : GetVariables(s)
    \/ \E s \in SessionIds, name \in UserNames : GetVariableType(s, name)
    \/ \E s \in SessionIds, name \in UserNames : GetVariableRepr(s, name)

SpecLock == Init /\ [][NextLock]_vars

\* One session whose caller configures timeouts of every sign and size
\* before it runs snippets, one of which never ends by itself.
ConfiguredTimeouts == {-5000, -500, 0, 999, 1500, 2000}

TimeoutSnippets == { <<Bind("x", "1")>>, <<Write(<<"a", "\n">>), Loop>> }

NextTimeouts ==
    \/ \E s \in SessionIds, ms \in ConfiguredTimeouts : SetExecutionTimeout(s, ms)
    \/ \E s \in SessionIds, code \in TimeoutSnippets : ExecuteBegin(s, code, "ok")
    \/ \E s \in SessionIds : EvalStep(s)
    \/ \E s \in SessionIds : ExecuteEnd(s)
    \/ AlarmExpire
    \/ \E s \in SessionIds : Crash(s)

SpecTimeouts == Init /\ [][NextTimeouts]_vars

\* One session whose calls end in every way execute() and executeFile() can
\* end: initialization failing at each of its steps, a snippet that writes
\* to sys.stderr and succeeds, raises, or never ends, a file that cannot be
\* opened.  The caller also interrupts and tears the session down.
ErrorSnippets ==
    { <<WriteErr(<<"b", "\n">>), Bind("x", "1")>>,
      <<WriteErr(<<"b", "\n">>), Raise("ValueError", <<"bad">>, TRUE)>>,
      <<Raise("SyntaxError", <<"bad">>, FALSE)>>,
      <<Loop>>,
      <<>> }

NextErrors ==
    \/ \E s \in SessionIds, code \in ErrorSnippets, env \in InitEnvs :
          ExecuteBegin(s, code, env)
    \/ \E s \in SessionIds, readable \in BOOLEAN, code \in ErrorSnippets, env \in InitEnvs :
          ExecuteFile(s, readable, code, env)
    \/ \E s \in SessionIds : EvalStep(s)
    \/ \E s \in SessionIds : ExecuteEnd(s)
    \/ AlarmExpire
    \/ \E s \in SessionIds : Crash(s)
    \/ \E s \in SessionIds : Interrupt(s)
    \/ \E s \in SessionIds : Cleanup(s)

SpecErrors == Init /\ [][NextErrors]_vars

\* The notebook window and its one session: the user runs a cell or all
\* cells, refreshes the inspector and restarts the kernel; execute() runs to
\* its end or to its deadline inside executeCell.
NextUi ==
    \/ \E c \in 1..Len(NotebookCells) : OnActionRunCell(c)
    \/ OnActionRunAll
    \/ \E s \in SessionIds : ExecuteCell(s)
    \/ \E s \in SessionIds : EvalStep(s)
    \/ \E s \in SessionIds : ExecuteEnd(s)
    \/ AlarmExpire
    \/ \E s \in SessionIds : Crash(s)
    \/ \E s \in SessionIds : ExecuteCellReturn(s)
    \/ \E s \in SessionIds : OnRefreshRequested(s)
    \/ \E s \in SessionIds : OnActionRestartKernel(s)

SpecUi == Init /\ [][NextUi]_vars

\* The notebook window and its cell list: cells are added, deleted, moved by
\* their buttons and reordered by drag and drop; the notebook is saved.
NextCells ==
    \/ AddCodeCell
    \/ DeleteCurrentCell
    \/ \E cell \in CellIds : OnCellMoveUp(cell)
    \/ \E cell \in CellIds : OnCellMoveDown(cell)
    \/ SaveToFile(<<"nb">>)
    \/ \E cell \in CellIds : MouseMoveEvent(cell)
    \/ \E y \in 0..(2 * MaxCells) : DragMoveEvent(y)
    \/ DropEvent

SpecCells == Init /\ [][NextCells]_vars

\* The notebook window saves its notebook as nb.lotus or nb_old.lotus, which
\* backs it up each time, and the number of backups to keep is changed.
NextBackups ==
    \/ \E filePath \in { <<"nb">>, <<"nb", "old">> } : SaveToFile(filePath)
    \/ \E max \in {0, DEFAULT_MAX_BACKUPS} : SetMaxBackups(max)

SpecBackups == Init /\ [][NextBackups]_vars

\* The notebook manager: cells are added, the notebook is exported to a
\* Jupyter file, and the file is imported.
NextIpynb ==
    \/ \E cell \in CellDatas : AddCell(cell)
    \/ ExportToIpynb
    \/ ImportFromIpynb

SpecIpynb == Init /\ [][NextIpynb]_vars

\* ------------------------------------------------------------------ claims

Contains(text, tok) == \E i \in 1..Len(text) : text[i] = tok

RECURSIVE ContainsAll(_, _)
ContainsAll(text, toks) ==
    toks = <<>> \/ (Contains(text, Head(toks)) /\ ContainsAll(text, Tail(toks)))

\* C1: quarantine after a timeout.  Once an execute() of a session has been
\* unwound by its deadline, and until the runtime it ran in has been torn
\* down (by restart() or any other teardown), no execute() evaluates a
\* statement in that runtime and no getVariables() reports a binding of it.
C1_QuarantineAfterTimeout ==
    \A s \in sessions :
        py.unwound =>
            /\ call[s].pc # "eval"
            /\ (returned[s].op = "getVariables" => returned[s].variables = {})

\* C2: bounded execution.  With a timeout above 0 configured, an execute()
\* that is evaluating a snippet which never finishes by itself eventually
\* returns, reporting a timeout (or the process has ended).
NeverFinishes(code) == \E i \in 1..Len(code) : code[i].op = "loop"

C2_BoundedExecution ==
    \A s \in SessionIds :
        (call[s].pc = "eval" /\ NeverFinishes(call[s].code)
            /\ executor[s].executionTimeout > 0)
        ~> (crashed \/ (/\ call[s].pc = "idle"
                        /\ returned[s].path = "timeout"
                        /\ ~returned[s].result.success
                        /\ Contains(returned[s].result.error, "Execution timed out after")))

\* C3: sequential output isolation.  Both sinks of a session are empty when
\* one of its execute() calls starts to evaluate, and the textOutput a call
\* returns is made of what its own snippet wrote.
C3_SequentialIsolation ==
    \A s \in sessions :
        /\ (call[s].pc = "eval" /\ call[s].ip = 1 /\ ~call[s].raised) =>
              (py.sinkOut[s] = <<>> /\ py.sinkErr[s] = <<>>)
        /\ (returned[s].op = "execute" /\ returned[s].path \in {"normal", "error"}) =>
              returned[s].result.textOutput = trimmed(plainText(returned[s].wrote))

\* C4: namespace persistence.  A binding a snippet made stays in the
\* namespace with its value, and in every getVariables() mapping with that
\* value, through every step of the session: the only steps that change or
\* remove it are a statement that binds the same name again, restart(),
\* cleanup() (the destructor) and the end of the process.
C4_Shown ==
    \A s \in sessions :
        executor[s].initialized =>
            \A n \in UserNames :
                py.globals[n] # Absent =>
                    [name |-> n, type |-> "int", value |-> PyObject_Repr(py.globals[n])] \in getVariables(s)

C4_Kept ==
    \A n \in UserNames :
        (py.globals[n] # Absent /\ py.globals[n] # py'.globals[n]) =>
            \/ crashed'
            \/ \E s \in sessions, env \in InitEnvs : Restart(s, env)
            \/ \E s \in sessions : Cleanup(s)
            \/ \E s \in sessions :
                  /\ EvalStep(s)
                  /\ call[s].code[call[s].ip].op = "bind"
                  /\ call[s].code[call[s].ip].name = n

C4_NamespacePersistence == []C4_Shown /\ [][C4_Kept]_vars

\* a binding made by one execute() is still shown after a later execute()
\* on the session ended with a snippet error
C4_Witness ==
    /\ returned[1].op = "execute"
    /\ returned[1].path = "error"
    /\ py.globals["x"] = "1"
    /\ [name |-> "x", type |-> "int", value |-> <<"1">>] \in getVariables(1)

\* C5: the deadline is disarmed on every exit path.  Whenever no execute()
\* is in flight (none was started, or the last one returned: normally, with
\* a snippet error, by forced unwind, or early on a failed initialization)
\* no alarm is pending, jumpSet is 0 and SIGALRM has the disposition it had
\* before the call.
C5_DeadlineDisarmed ==
    \A s \in sessions :
        call[s].pc = "idle" =>
            /\ alarm = 0
            /\ jumpSet = 0
            /\ sigHandler = "SIG_DFL"

\* an execute() has returned by forced unwind
C5_Witness ==
    /\ call[1].pc = "idle"
    /\ returned[1].op = "execute"
    /\ returned[1].path = "timeout"
    /\ alarm = 0

\* C6: one deadline per in-flight execute(), shared with no other call.
\* Every execute() in flight still has the jump target it set (jumpSet is
\* 1 and jumpBuffer holds its own frame) and the handler it installed, and
\* the process has not been ended by a deadline.
C6_OwnDeadline ==
    /\ ~crashed
    /\ \A s \in sessions :
          call[s].pc = "eval" =>
              /\ jumpSet = 1
              /\ jumpBuffer = s
              /\ sigHandler = "timeoutHandler"

\* C7: the error of a snippet that raised.  An execute() that ended with a
\* snippet error returns success = false and an error that is not empty and
\* holds the kind of the failure and its message text.
C7_ErrorKindAndMessage ==
    \A s \in sessions :
        (returned[s].op = "execute" /\ returned[s].path = "error") =>
            /\ ~returned[s].result.success
            /\ returned[s].result.error # <<>>
            /\ Contains(returned[s].result.error, returned[s].exc.kind)
            /\ ContainsAll(returned[s].result.error, returned[s].exc.text)

\* C8: after restart() has returned, and before any further execute(),
\* getVariables() is the empty mapping.
C8_EmptyAfterRestart ==
    \A s \in sessions :
        returned[s].op = "restart" => getVariables(s) = {}

\* C9: restart() tears down unconditionally.  After a restart() that
\* returned with the session initialized, the runtime is one created by that
\* restart (sys.path got its one "." entry from it) and holds no binding of
\* a snippet.
C9_RestartFromScratch ==
    \A s \in sessions :
        (returned[s].op = "restart" /\ returned[s].ok) =>
            /\ executor[s].initialized
            /\ py.live
            /\ py.sysPath = 1
            /\ \A n \in UserNames : py.globals[n] = Absent

\* C10: a failed initialize() leaves nothing live.  After an initialize()
\* that returned false (called directly, by restart() or by execute()) the
\* runtime is finalized, the session holds no handle and initialized is
\* false.
InitializeFailed(s) ==
    \/ (returned[s].op \in {"initialize", "restart"} /\ ~returned[s].ok)
    \/ (returned[s].op = "execute" /\ returned[s].path = "initFailed")

C10_NoPartialState ==
    \A s \in sessions :
        InitializeFailed(s) =>
            /\ ~executor[s].initialized
            /\ ~py.live
            /\ executor[s].pMainModule = "null"
            /\ executor[s].pGlobals = "null"
            /\ executor[s].pStdout = "null"
            /\ executor[s].pStderr = "null"
            /\ executor[s].pPlotCaptureModule = "null"

\* C11: initialize() is idempotent.  Called on a session that is initialized
\* it returns true and changes nothing of the runtime (bindings, installed
\* sinks, their buffered text, figures) and nothing of the session's
\* members, the plot helper included.
C11_Step ==
    \A s \in sessions, env \in InitEnvs :
        (executor[s].initialized /\ Initialize(s, env)) =>
            /\ returned'[s].ok
            /\ py' = py
            /\ executor' = executor

C11_InitializeIdempotent == [][C11_Step]_vars

\* initialize() has returned true on a session that holds a binding of a
\* snippet and text left in its sink
C11_Witness ==
    /\ returned[1].op = "initialize"
    /\ returned[1].ok
    /\ executor[1].initialized
    /\ py.globals["x"] # Absent
    /\ py.sinkOut[1] # <<>>

\* C12: the cancellation flag is observed before a new execute() begins.
\* An execute() that starts while the flag set by interrupt() is still up
\* evaluates nothing and returns a failed result that reports the
\* interruption (or the failure of its lazy initialization).
C12_Step ==
    \A s \in sessions, code \in Snippets, env \in InitEnvs :
        (executor[s].executionInterrupted /\ ExecuteBegin(s, code, env)) =>
            /\ call'[s].pc = "idle"
            /\ returned'[s].op = "execute"
            /\ ~returned'[s].result.success
            /\ \/ returned'[s].path = "initFailed"
               \/ /\ returned'[s].path = "interrupted"
                  /\ returned'[s].result.error = <<"Execution interrupted by user">>

C12_InterruptObserved == [][C12_Step]_vars

\* C13: the sinks are installed again before each execute().  When an
\* execute() starts to evaluate, sys.stdout and sys.stderr are the session's
\* own sinks, whatever an earlier snippet bound them to, and an execute()
\* whose snippet wrote text returns with text captured.
C13_SinksReinstalled ==
    \A s \in sessions :
        /\ (call[s].pc = "eval" /\ call[s].ip = 1) =>
              (py.sysStdout = Channel("sink", s) /\ py.sysStderr = Channel("sink", s))
        /\ (returned[s].op = "execute" /\ returned[s].path = "normal"
              /\ returned[s].wrote # <<>>) =>
              (returned[s].result.textOutput # <<>> \/ returned[s].result.outputs # <<>>)

\* C19: plotData holds the captured figure.  An execute() that succeeded,
\* whose snippet drew a figure and that captured and decoded it (it emitted
\* plotGenerated with the bytes) returns those bytes in plotData.
C19_PlotDataHoldsFigure ==
    \A s \in sessions :
        (returned[s].op = "execute" /\ returned[s].path = "normal"
            /\ returned[s].drew /\ returned[s].plotGenerated # <<>>) =>
            /\ returned[s].result.plotData # <<>>
            /\ returned[s].result.plotData = returned[s].plotGenerated

LinesOf(t) ==
    LET breaks == {i \in 1..Len(t) : t[i] = "\n"}
        starts == {1} \cup {i + 1 : i \in breaks}
        EndOf(b) == IF \E i \in breaks : i >= b
                    THEN (CHOOSE i \in breaks : i >= b /\ \A j \in breaks : j >= b => i <= j) - 1
                    ELSE Len(t)
        Nth(k) == CHOOSE b \in starts : Cardinality({c \in starts : c < b}) = k - 1
    IN [k \in 1..Cardinality(starts) |-> SubSeq(t, Nth(k), EndOf(Nth(k)))]

IsSentinelLine(l) == Len(l) >= 1 /\ l[1] = "S"

IsBlankLine(l) == \A i \in 1..Len(l) : l[i] \in {" ", "\n"}

\* the variant each recognized type is tagged with
TagOf ==
    [j \in {"J:text", "J:html", "J:table", "J:image", "J:error", "J:rich", "J:markdown"} |->
        CASE j = "J:text" -> "Text"
          [] j = "J:html" -> "Html"
          [] j = "J:table" -> "Table"
          [] j = "J:image" -> "Image"
          [] j = "J:error" -> "Error"
          [] j = "J:rich" -> "Rich"
          [] j = "J:markdown" -> "Markdown"]

\* the JSON documents of a sentinel line, blanks around them left out
DocsOf(l) == SelectSeq(SubSeq(l, 2, Len(l)), LAMBDA c : c # " ")

\* a sentinel line with valid JSON and a recognized type
IsValidSentinel(l) ==
    /\ IsSentinelLine(l)
    /\ Len(DocsOf(l)) = 1
    /\ DocsOf(l)[1] \in DOMAIN TagOf
    /\ \A i \in 2..Len(l) : l[i] = " " \/ l[i] = DocsOf(l)[1]

IsMalformedSentinel(l) == IsSentinelLine(l) /\ ~IsValidSentinel(l)

\* the entry a valid sentinel line stands for: the content "hi", as text or,
\* for an image, as the bytes it decodes to
EntryOf(l) ==
    IF TagOf[DocsOf(l)[1]] = "Image"
    THEN [type |-> "Image", content |-> <<>>, imageData |-> <<"bytes">>]
    ELSE [type |-> TagOf[DocsOf(l)[1]], content |-> <<"h", "i">>, imageData |-> <<>>]

\* one entry for each valid sentinel line, in the order of the lines
ExpectedOutputs(lines) ==
    LET valid == {k \in 1..Len(lines) : IsValidSentinel(lines[k])}
        Nth(n) == CHOOSE k \in valid : Cardinality({j \in valid : j < k}) = n - 1
    IN [n \in 1..Cardinality(valid) |-> EntryOf(lines[Nth(n)])]

\* the lines before the first sentinel line, each followed by a line break
ExpectedPlain(lines) ==
    LET first == IF \E k \in 1..Len(lines) : IsSentinelLine(lines[k])
                 THEN CHOOSE k \in 1..Len(lines) :
                        /\ IsSentinelLine(lines[k])
                        /\ \A j \in 1..(k - 1) : ~IsSentinelLine(lines[j])
                 ELSE Len(lines) + 1
        before == SubSeq(lines, 1, first - 1)
        Cat[k \in 0..Len(before)] ==
            IF k = 0 THEN <<>> ELSE Cat[k - 1] \o before[k] \o <<"\n">>
    IN Cat[Len(before)]

\* x occurs in t as a run of consecutive tokens
IsInfix(x, t) ==
    \E i \in 0..(Len(t) - Len(x)) : SubSeq(t, i + 1, i + Len(x)) = x

\* the execute() of session s has returned after evaluating its snippet
Evaluated(s) ==
    returned[s].op = "execute" /\ returned[s].path \in {"normal", "error"}

\* C14: a malformed sentinel line is dropped.  Whenever the captured stream
\* holds a sentinel line with invalid JSON or an unrecognized type, outputs
\* holds the entries of the valid sentinel lines and no other entry, and
\* success and error are those of the snippet's own ending.
C14_MalformedDropped ==
    \A s \in sessions :
        (Evaluated(s) /\ \E k \in 1..Len(LinesOf(returned[s].wrote)) :
                            IsMalformedSentinel(LinesOf(returned[s].wrote)[k])) =>
            /\ returned[s].result.outputs = ExpectedOutputs(LinesOf(returned[s].wrote))
            /\ returned[s].result.success = (returned[s].path = "normal")
            /\ returned[s].result.error =
                  IF returned[s].path = "normal" THEN <<>> ELSE errorMsg(returned[s].exc)

\* C14, amended: a malformed sentinel line yields no entry of its own.
\* Whenever the captured stream holds such a line, outputs holds the entries
\* of the valid sentinel lines only, or, when there is no valid sentinel
\* line and no text before the first sentinel line, the one Text entry in
\* which the fallback wraps the whole raw stream; success and error are
\* those of the snippet's own ending.
C14_MalformedDroppedOrWrapped ==
    \A s \in sessions :
        (Evaluated(s) /\ \E k \in 1..Len(LinesOf(returned[s].wrote)) :
                            IsMalformedSentinel(LinesOf(returned[s].wrote)[k])) =>
            /\ \/ returned[s].result.outputs = ExpectedOutputs(LinesOf(returned[s].wrote))
               \/ /\ ExpectedOutputs(LinesOf(returned[s].wrote)) = <<>>
                  /\ returned[s].result.textOutput = <<>>
                  /\ returned[s].result.outputs =
                        <<[type |-> "Text", content |-> returned[s].wrote,
                           imageData |-> <<>>]>>
            /\ returned[s].result.success = (returned[s].path = "normal")
            /\ returned[s].result.error =
                  IF returned[s].path = "normal" THEN <<>> ELSE errorMsg(returned[s].exc)

\* a sentinel line of an unrecognized type followed by a valid one has
\* been split: one entry, that of the valid line
C14_Witness ==
    /\ Evaluated(1)
    /\ returned[1].wrote = <<"S", "J:other", "\n", "S", "J:image">>
    /\ Len(returned[1].result.outputs) = 1
    /\ returned[1].result.outputs[1].type = "Image"

\* C15: no captured output is lost.  Every line of the captured stream that
\* is not blank and is not a sentinel line occurs in textOutput or in the
\* content of an entry of outputs.
C15_NoOutputLost ==
    \A s \in sessions :
        Evaluated(s) =>
            \A k \in 1..Len(LinesOf(returned[s].wrote)) :
                LET l == LinesOf(returned[s].wrote)[k] IN
                (~IsBlankLine(l) /\ ~IsSentinelLine(l)) =>
                    \/ IsInfix(trimmed(l), returned[s].result.textOutput)
                    \/ \E n \in 1..Len(returned[s].result.outputs) :
                          IsInfix(trimmed(l), returned[s].result.outputs[n].content)

\* C16: one entry for each valid sentinel line.  When the captured stream
\* holds sentinel lines with valid JSON and a recognized type, outputs is
\* the sequence of their entries, each tagged with the variant of its type
\* and carrying its content, in the order of the lines; the single line
\* SENTINEL:{type text, content hi} gives outputs = [Text hi] and an empty
\* textOutput.
C16_OneEntryPerSentinel ==
    \A s \in sessions :
        Evaluated(s) =>
            /\ ExpectedOutputs(LinesOf(returned[s].wrote)) # <<>> =>
                  returned[s].result.outputs = ExpectedOutputs(LinesOf(returned[s].wrote))
            /\ returned[s].wrote \in {<<"S", "J:text">>, <<"S", "J:text", "\n">>} =>
                  /\ returned[s].result.outputs =
                        <<[type |-> "Text", content |-> <<"h", "i">>, imageData |-> <<>>]>>
                  /\ returned[s].result.textOutput = <<>>

\* three lines, the first and the last of them valid sentinel lines of
\* different types, have been split
C16_Witness ==
    /\ Evaluated(1)
    /\ returned[1].wrote = <<"S", "J:image", "\n", "a", "\n", "S", "J:text">>
    /\ Len(returned[1].result.outputs) = 2
    /\ returned[1].result.outputs[1].type = "Image"
    /\ returned[1].result.outputs[2].type = "Text"

\* C17: textOutput is the text before the first sentinel line.  It equals
\* the lines that precede the first line starting with the sentinel token,
\* put together and trimmed; no later line adds to it.
C17_TextBeforeFirstSentinel ==
    \A s \in sessions :
        Evaluated(s) =>
            returned[s].result.textOutput =
                trimmed(ExpectedPlain(LinesOf(returned[s].wrote)))

\* a plain line, a malformed sentinel line and another plain line have been
\* split
C17_Witness ==
    /\ Evaluated(1)
    /\ returned[1].wrote = <<"a", "\n", "S", "a", "\n", "a">>
    /\ returned[1].result.textOutput = <<"a">>

\* C18: the fallback entry.  When the raw stream is not empty and parsing
\* leaves textOutput empty and no entry, outputs is one Text entry holding
\* the whole raw stream; in every other case outputs holds the parsed
\* entries only.
C18_FallbackWrapping ==
    \A s \in sessions :
        Evaluated(s) =>
            LET raw == returned[s].wrote
                parsed == ExpectedOutputs(LinesOf(raw))
            IN IF raw # <<>> /\ returned[s].result.textOutput = <<>> /\ parsed = <<>>
               THEN returned[s].result.outputs =
                        <<[type |-> "Text", content |-> raw, imageData |-> <<>>]>>
               ELSE returned[s].result.outputs = parsed

\* a stream of blank lines and a sentinel line of an unrecognized type has
\* been wrapped whole
C18_Witness ==
    /\ Evaluated(1)
    /\ returned[1].wrote = <<" ", "\n", "S", "J:other", "\n">>
    /\ returned[1].result.outputs =
          <<[type |-> "Text", content |-> returned[1].wrote, imageData |-> <<>>]>>

\* A snippet has bound the name and no later one has deleted it.
Bound(n) == py.live /\ py.globals[n] # Absent

\* The names of the mapping the last getVariables() of s returned.
SnapshotNames(s) == { e.name : e \in returned[s].variables }

\* C21: the mapping getVariables() returns never has a name of the fixed
\* exclusion list, not even one a snippet has rebound.
C21_ExclusionList ==
    \A s \in sessions :
        returned[s].op = "getVariables" => SnapshotNames(s) \cap ExcludedNames = {}

\* getVariables() has returned a non-empty mapping while the snippets' own
\* bindings of open, In and __name__ are in the namespace.
C21_Witness ==
    /\ returned[1].op = "getVariables"
    /\ returned[1].variables # {}
    /\ py.globals["open"] = "1"
    /\ py.globals["In"] = "2"
    /\ py.globals["__name__"] = "2"

\* C22: the mapping getVariables() returns has none of the names the session
\* itself binds in the namespace during initialize(): the capture class, the
\* plot helper and the modules it imports.  (No snippet of SpecSnapshot binds
\* one of these names.)
C22_BootstrapExcluded ==
    \A s \in sessions :
        returned[s].op = "getVariables" =>
            SnapshotNames(s) \cap (RedirectNames \cup PlotNames \cup ImportNames) = {}

C24_ReprCapped ==
    \A s \in sessions :
        returned[s].op = "getVariables" =>
            \A e \in returned[s].variables :
                /\ Len(e.value) <= maxLength + 3
                /\ e.value = parsePythonValue(PyObject_Repr(py.globals[e.name]))

\* C25: the interpreter lock.  A statement of a snippet is evaluated by a
\* thread that holds the lock; getVariables(), getVariableType() and
\* getVariableRepr() leave the lock with whoever held it before the call; and
\* an execute() never returns, on any path, out of a wait for which the lock
\* was given up and not yet taken back.
C25_Step ==
    \A s \in sessions :
        /\ (EvalStep(s) /\ ~call[s].blocked) => py.gil = s
        /\ (GetVariables(s) \/ (\E n \in UserNames : GetVariableType(s, n))
               \/ (\E n \in UserNames : GetVariableRepr(s, n))) => py'.gil = py.gil
        /\ (call[s].pc = "eval" /\ call'[s].pc = "idle" /\ ~crashed') => ~call[s].blocked

C25_LockHeld == [][C25_Step]_vars

\* C26: a timeout of 0 ms or less is invalid.  The setter or execute()
\* rejects it, so no execute() evaluates a snippet while the session's
\* configured timeout is 0 or negative.
C26_NonPositiveTimeoutRejected ==
    \A s \in sessions :
        call[s].pc = "eval" => executor[s].executionTimeout > 0

\* C30: no premature timeout.  The deadline an execute() is armed with is not
\* earlier than the configured timeout, whether or not that is a multiple of
\* 1000 ms.
C30_NoPrematureTimeout ==
    \A s \in sessions :
        (call[s].pc = "eval" /\ jumpBuffer = s /\ alarm > 0
            /\ executor[s].executionTimeout > 0) =>
                alarm * 1000 >= executor[s].executionTimeout

\* x is t without its leading and trailing blanks and line breaks
IsStripped(x, t) ==
    \E i \in 1..Len(t), j \in 1..Len(t) :
        /\ i <= j
        /\ x = SubSeq(t, i, j)
        /\ t[i] \notin {" ", "\n"}
        /\ t[j] \notin {" ", "\n"}
        /\ \A k \in (1..(i - 1)) \cup ((j + 1)..Len(t)) : t[k] \in {" ", "\n"}

C28_Step ==
    \A s \in sessions :
        GetVariables(s) =>
            /\ py' = py
            /\ executor' = executor
            /\ IF ~executor[s].initialized
               THEN returned'[s].variables = {}
               ELSE /\ \A n \in UserNames \cup DoubleNames :
                          (\E e \in returned'[s].variables : e.name = n) <=>
                              py.globals[n] # Absent
                    /\ \A e \in returned'[s].variables :
                          /\ py.globals[e.name] # Absent
                          /\ e.value = PyObject_Repr(py.globals[e.name])
                          /\ e.type = typeName(py.globals[e.name])

C28_RebuiltWholesale == [][C28_Step]_vars

\* getVariables() has returned a mapping without x after a snippet bound x
\* and _tmp and a later one deleted x
C28_Witness ==
    /\ returned[1].op = "getVariables"
    /\ returned[1].variables # {}
    /\ "x" \notin SnapshotNames(1)
    /\ Bound("_tmp")
    /\ ~Bound("x")

\* C27: no resubmission after a timeout without a restart.  While the
\* runtime is the one a timed-out execute() was unwound in (no restart() has
\* torn it down since), no executeCell of the window, from Run Cell or from
\* Run All, calls execute().
C27_Step ==
    \A s \in sessions :
        py.unwound => ~(ExecuteCell(s) /\ ui'.pc = "execute")

C27_RestartBeforeResubmit == [][C27_Step]_vars

\* the execute() or executeFile() of session s has returned
Finished(s) ==
    /\ returned[s].op \in {"execute", "executeFile"}
    /\ returned[s].path # "running"

\* C31: a result with success = true has an empty error field, also when
\* the snippet ended normally after it wrote to sys.stderr.
C31_SuccessHasNoError ==
    \A s \in sessions :
        (Finished(s) /\ returned[s].result.success) => returned[s].result.error = <<>>

\* C32: a result with success = false has an error field that is not empty,
\* on every failure path of execute() and executeFile().
C32_FailureHasError ==
    \A s \in sessions :
        (Finished(s) /\ ~returned[s].result.success) => returned[s].result.error # <<>>

\* C33: signal pairing.  An execute() that returned early, on a failed
\* initialization or a pending interrupt, has emitted no signal; one that is
\* evaluating has emitted executionStarted alone; one that returned after
\* evaluating, normally, on a snippet error or on its deadline, has emitted
\* executionStarted and then one executionFinished carrying the success value
\* of its result.
C33_SignalPairing ==
    \A s \in sessions :
        returned[s].op = "execute" =>
            returned[s].emitted =
                CASE returned[s].path \in {"initFailed", "interrupted"} -> <<>>
                  [] returned[s].path = "running" ->
                        <<[signal |-> "executionStarted", success |-> FALSE]>>
                  [] OTHER ->
                        <<[signal |-> "executionStarted", success |-> FALSE],
                          [signal |-> "executionFinished",
                           success |-> returned[s].result.success]>>

\* an execute() has returned on its deadline after both signals
C33_Witness ==
    /\ returned[1].op = "execute"
    /\ returned[1].path = "timeout"
    /\ Len(returned[1].emitted) = 2
    /\ returned[1].emitted[2].signal = "executionFinished"
    /\ ~returned[1].emitted[2].success

\* the entries of a variable mapping for the names the notebook's cells bind
UserEntries(snapshot) == { v \in snapshot : v.name \in UserNames }

\* C34: whenever the window is back in its event loop, after a completed
\* executeCell or a Restart Kernel action, the inspector shows the session's
\* current variable snapshot; stated for the variables the cells bind, which
\* the inspector must then show exactly.
C34_InspectorCurrent ==
    \A s \in sessions :
        UiIdle => UserEntries(ui.inspector) = UserEntries(getVariables(s))

\* C35: the cell list holds every cell widget that exists exactly once,
\* each cell's cellIndex is its position in the list, and moveCell and
\* reorderCells with a source or target index out of range leave the list
\* and the modified flag as they are.
C35_CellListKept ==
    /\ Len(ui.cells) = Cardinality(ui.widgets)
    /\ { ui.cells[i] : i \in 1..Len(ui.cells) } = ui.widgets
    /\ \A i \in 1..Len(ui.cells) : ui.cellIndex[ui.cells[i]] = i - 1
    /\ \A fromIndex, toIndex \in -1..(MaxCells + 1) :
          (\/ fromIndex < 0 \/ fromIndex >= Len(ui.cells)
           \/ toIndex < 0 \/ toIndex >= Len(ui.cells))
          => /\ reorderCells(ui, fromIndex, toIndex).cells = ui.cells
             /\ reorderCells(ui, fromIndex, toIndex).isModified = ui.isModified
    /\ \A cell \in CellIds, direction \in {-1, 1} :
          (\/ indexOf(ui.cells, cell) + direction < 0
           \/ indexOf(ui.cells, cell) + direction >= Len(ui.cells))
          => /\ moveCell(ui, cell, direction).cells = ui.cells
             /\ moveCell(ui, cell, direction).isModified = ui.isModified

\* a saved notebook of three cells whose last created cell has been moved
\* to the top
C35_Witness ==
    /\ ui.cells = <<3, 1, 2>>
    /\ ui.cellIndex[3] = 0
    /\ ~ui.isModified
    /\ ui.drag = -1

\* C36: a drop with the indicator at index t puts the dragged cell
\* immediately before the cell that was at index t, and last when t is the
\* number of cells.
C36_Step ==
    (ui.drag >= 0 /\ ui.drag < Len(ui.cells) /\ ui'.drag = -1
       /\ ui.dropIndicatorIndex >= 0 /\ ui.dropIndicatorIndex <= Len(ui.cells))
    => LET dragged == ui.cells[ui.drag + 1]
           t == ui.dropIndicatorIndex
       IN IF t = Len(ui.cells)
          THEN ui'.cells[Len(ui'.cells)] = dragged
          ELSE ui.cells[t + 1] # dragged
               => indexOf(ui'.cells, dragged) + 1 = indexOf(ui'.cells, ui.cells[t + 1])

C36_DropAtIndicator == [][C36_Step]_vars

\* C37: after a successful createBackup for a notebook, at most maxBackups
\* backups of that notebook exist, the one just written among them, every
\* backup of it that was deleted is older than every one that was kept, and
\* the backups of other notebooks are untouched.
C37_Step ==
    disk'.now # disk.now =>
        LET path == ui'.currentFilePath
            written == [name |-> path \o <<disk'.now>>,
                        lastModified |-> disk'.now,
                        original_path |-> path]
            before == { f \in disk.backups : f.original_path = path } \cup {written}
            after == { f \in disk'.backups : f.original_path = path }
        IN /\ Cardinality(after) <= disk'.maxBackups
           /\ written \in after
           /\ \A kept \in after, deleted \in before \ after :
                  deleted.lastModified < kept.lastModified
           /\ { f \in disk'.backups : f.original_path # path }
                  = { f \in disk.backups : f.original_path # path }

C37_NewestKept == [][C37_Step]_vars

\* C38: importing the Jupyter file that was exported from the notebook at
\* hand yields the same cells in the same order, with the same type, the
\* same content and, for executed code cells, the same execution count.
C38_Step ==
    (/\ disk.ipynb.exists
     /\ disk.ipynb = exportToIpynb(ui.notebook)
     /\ disk' = disk
     /\ ui'.notebook = convertIpynbToLotus(disk.ipynb))
    => /\ Len(ui'.notebook) = Len(ui.notebook)
       /\ \A i \in 1..Len(ui.notebook) :
             /\ ui'.notebook[i].type = ui.notebook[i].type
             /\ ui'.notebook[i].content = ui.notebook[i].content
             /\ (ui.notebook[i].type = "CodeCell" /\ ui.notebook[i].wasExecuted)
                   => ui'.notebook[i].executionCount = ui.notebook[i].executionCount

C38_RoundTrip == [][C38_Step]_vars

====
